---- MODULE Spec2Model ----
(***************************************************************************)
(* Photobooth backend: the Access Control Gate, the Upload Pipeline, the   *)
(* Deletion Service and the listing/lookup handlers, over a Metadata Store *)
(* (the photos table) and a Blob Store.  The Blob Store is an external     *)
(* service: the model keeps what its calls return and, per request, the    *)
(* number of calls made to it, not its contents.                           *)
(*                                                                         *)
(* Strings that the code inspects character by character (the              *)
(* Authorization header, the configured credentials) are sequences of      *)
(* ASCII codes.  An unset environment variable and an absent header are    *)
(* the empty sequence: the code tests them with `!x`, which does not       *)
(* distinguish undefined, null and "".                                     *)
(***************************************************************************)
EXTENDS Integers, Sequences, FiniteSets, Bags, TLC

VARIABLES
  env,       \* process.env: ADMIN_USER, ADMIN_PASS, DATABASE_URL, BLOB_READ_WRITE_TOKEN
  photos,    \* Metadata Store: the rows of the photos table, by id
  nextId,    \* number of ids the Metadata Store has generated
  deleted,   \* history: the ids whose single delete has succeeded
  req,       \* the requests suspended at an await (a bag: requests have no identity)
  resp,      \* the response most recently sent
  authCase,  \* one call of an Access Control Gate: its inputs and its result
  editor     \* the photo editor in the browser: its content and its undo history

vars == <<env, photos, nextId, deleted, req, resp, authCase, editor>>

(***************************************************************************)
(* Bounds                                                                  *)
(***************************************************************************)
MaxCredLen == 4   \* longest decoded credential string tried against a gate
MaxIds == 2       \* rows the Metadata Store creates in one behaviour
MaxSlots == 2     \* requests that can be suspended at the same time
MaxUploads == 1   \* uploads followed from the multipart body to the row
MaxLimitLen == 3  \* longest limit parameter tried on a list endpoint
MaxPathLen == 3   \* segments of a stored path
MaxNameLen == 3   \* characters of a file name after its run of "a"
MaxRows == 3      \* rows of the table a client pages through
MaxCalls == 3     \* calls of uploadCapturedPhoto in one behaviour
MaxEdits == 3     \* entries of the editor's history, and photos in its frames

(***************************************************************************)
(* Characters and strings                                                  *)
(***************************************************************************)
SP == 32        \* " "
COLON == 58     \* ":"
EQ == 61        \* "="
Undefined == << -1 >>   \* the JavaScript value undefined, where a string is expected

Str_Basic_ == <<66, 97, 115, 105, 99, 32>>                           \* "Basic "
Str_Bearer_x == <<66, 101, 97, 114, 101, 114, 32, 120>>              \* "Bearer x"
Str_Admin == <<65, 100, 109, 105, 110>>                              \* "Admin"
Str_magzme1234 == <<109, 97, 103, 122, 109, 101, 49, 50, 51, 52>>    \* "magzme1234"

StartsWith(s, p) == Len(s) >= Len(p) /\ SubSeq(s, 1, Len(p)) = p

\* String.prototype.split(sep) for a one-character separator
RECURSIVE Split(_, _)
Split(s, sep) ==
  IF \A i \in DOMAIN s : s[i] # sep
  THEN << s >>
  ELSE LET k == CHOOSE i \in DOMAIN s : s[i] = sep /\ \A j \in 1..(i - 1) : s[j] # sep
       IN  << SubSeq(s, 1, k - 1) >> \o Split(SubSeq(s, k + 1, Len(s)), sep)

\* String.prototype.indexOf(c), 0-based, -1 when absent
IndexOf(s, c) ==
  IF \A i \in DOMAIN s : s[i] # c
  THEN -1
  ELSE (CHOOSE i \in DOMAIN s : s[i] = c /\ \A j \in 1..(i - 1) : s[j] # c) - 1

\* const [a, b] = parts : the element at 0-based index n, or undefined
Destructure(parts, n) == IF Len(parts) > n THEN parts[n + 1] ELSE Undefined

(***************************************************************************)
(* Base64.  Base64Encode is what a client does to build the header;        *)
(* Base64Decode is Buffer.from(s, "base64"): characters outside the        *)
(* alphabet are skipped, decoding stops at the first "=", and missing      *)
(* padding is accepted.                                                    *)
(***************************************************************************)
B64Char(v) ==
  IF v < 26 THEN 65 + v
  ELSE IF v < 52 THEN 97 + (v - 26)
  ELSE IF v < 62 THEN 48 + (v - 52)
  ELSE IF v = 62 THEN 43 ELSE 47

B64Val(c) ==
  IF c \in 65..90 THEN c - 65
  ELSE IF c \in 97..122 THEN c - 71
  ELSE IF c \in 48..57 THEN c + 4
  ELSE IF c = 43 THEN 62
  ELSE IF c = 47 THEN 63 ELSE -1

RECURSIVE Base64Encode(_)
Base64Encode(b) ==
  IF Len(b) = 0 THEN << >>
  ELSE IF Len(b) = 1
  THEN << B64Char(b[1] \div 4), B64Char((b[1] % 4) * 16), EQ, EQ >>
  ELSE IF Len(b) = 2
  THEN << B64Char(b[1] \div 4), B64Char((b[1] % 4) * 16 + (b[2] \div 16)),
          B64Char((b[2] % 16) * 4), EQ >>
  ELSE << B64Char(b[1] \div 4), B64Char((b[1] % 4) * 16 + (b[2] \div 16)),
          B64Char((b[2] % 16) * 4 + (b[3] \div 64)), B64Char(b[3] % 64) >>
       \o Base64Encode(SubSeq(b, 4, Len(b)))

RECURSIVE B64Bytes(_)
B64Bytes(v) ==
  IF Len(v) < 2 THEN << >>
  ELSE IF Len(v) = 2 THEN << v[1] * 4 + (v[2] \div 16) >>
  ELSE IF Len(v) = 3
  THEN << v[1] * 4 + (v[2] \div 16), (v[2] % 16) * 16 + (v[3] \div 4) >>
  ELSE << v[1] * 4 + (v[2] \div 16), (v[2] % 16) * 16 + (v[3] \div 4),
          (v[3] % 4) * 64 + v[4] >>
       \o B64Bytes(SubSeq(v, 5, Len(v)))

Base64Decode(s) ==
  LET upto  == IF IndexOf(s, EQ) >= 0 THEN SubSeq(s, 1, IndexOf(s, EQ)) ELSE s
      valid == SelectSeq(upto, LAMBDA c : B64Val(c) >= 0)
  IN  B64Bytes([i \in DOMAIN valid |-> B64Val(valid[i])])

\* Buffer.toString("utf-8"): ASCII bytes decode to themselves, a byte that
\* starts no valid sequence to U+FFFD
Utf8ToString(b) == [i \in DOMAIN b |-> IF b[i] < 128 THEN b[i] ELSE 65533]

(***************************************************************************)
(* Access Control Gate                                                     *)
(***************************************************************************)
Realm_Admin == "Basic realm=\"Admin\""
Realm_AdminPanel == "Basic realm=\"Admin Panel\""

Authorized == [authorized |-> TRUE, status |-> 0, www |-> ""]
Denied(status, www) == [authorized |-> FALSE, status |-> status, www |-> www]

\* authHeader.split(" ")[1], then Buffer.from(..., "base64").toString("utf-8")
Base64Credentials(authHeader) == Destructure(Split(authHeader, SP), 1)
DecodeCredentials(base64Credentials) == Utf8ToString(Base64Decode(base64Credentials))

\* const [username, password] = credentials.split(":"); compare both
SplitMatch(credentials, adminUser, adminPass) ==
  LET parts == Split(credentials, COLON)
  IN  Destructure(parts, 0) = adminUser /\ Destructure(parts, 1) = adminPass

\* checkBasicAuthSync answering a request without credentials with a bare 401
checkBasicAuthSync_NoChallenge(adminUser, adminPass, authHeader) ==
  IF adminUser = << >> \/ adminPass = << >>
  THEN Denied(500, "")
  ELSE IF authHeader = << >> \/ ~StartsWith(authHeader, Str_Basic_)
  THEN Denied(401, "")
  ELSE IF Base64Credentials(authHeader) = << >>
  THEN Denied(401, Realm_Admin)
  ELSE IF SplitMatch(DecodeCredentials(Base64Credentials(authHeader)), adminUser, adminPass)
  THEN Authorized
  ELSE Denied(401, Realm_Admin)

\* api/_lib/basicAuth.js checkBasicAuthSync
checkBasicAuthSync(adminUser, adminPass, authHeader) ==
  IF adminUser = << >> \/ adminPass = << >>
  THEN Denied(500, "")
  ELSE IF authHeader = << >> \/ ~StartsWith(authHeader, Str_Basic_)
  THEN Denied(401, Realm_Admin)
  ELSE IF Base64Credentials(authHeader) = << >>
  THEN Denied(401, Realm_Admin)
  ELSE IF SplitMatch(DecodeCredentials(Base64Credentials(authHeader)), adminUser, adminPass)
  THEN Authorized
  ELSE Denied(401, Realm_Admin)

\* server/admin/basicAuth.js basicAuth (Express middleware)
basicAuth(adminUser, adminPass, authHeader) ==
  IF adminUser = << >> \/ adminPass = << >>
  THEN Denied(500, "")
  ELSE IF authHeader = << >> \/ ~StartsWith(authHeader, Str_Basic_)
  THEN Denied(401, Realm_AdminPanel)
  ELSE IF SplitMatch(DecodeCredentials(Base64Credentials(authHeader)), adminUser, adminPass)
  THEN Authorized
  ELSE Denied(401, Realm_AdminPanel)

\* api/photos.js requireAuth: falls back to built-in credentials; the
\* handler answers every denial with 401 and the "Admin" challenge
requireAuth(adminUser, adminPass, authHeader) ==
  LET user == IF adminUser = << >> THEN Str_Admin ELSE adminUser
      pass == IF adminPass = << >> THEN Str_magzme1234 ELSE adminPass
  IN  IF authHeader = << >> \/ ~StartsWith(authHeader, Str_Basic_)
      THEN Denied(401, Realm_Admin)
      ELSE IF Base64Credentials(authHeader) = << >>
      THEN Denied(401, Realm_Admin)
      ELSE IF SplitMatch(DecodeCredentials(Base64Credentials(authHeader)), user, pass)
      THEN Authorized
      ELSE Denied(401, Realm_Admin)

\* the dashboard handler that splits the credentials at the first colon
dashboardAuth(adminUser, adminPass, authHeader) ==
  IF adminUser = << >> \/ adminPass = << >>
  THEN Denied(500, "")
  ELSE IF ~StartsWith(authHeader, Str_Basic_)
  THEN Denied(401, Realm_Admin)
  ELSE LET decoded == DecodeCredentials(Base64Credentials(authHeader))
           idx     == IndexOf(decoded, COLON)
           user    == IF idx >= 0 THEN SubSeq(decoded, 1, idx) ELSE << >>
           pass    == IF idx >= 0 THEN SubSeq(decoded, idx + 2, Len(decoded)) ELSE << >>
       IN  IF user # adminUser \/ pass # adminPass
           THEN Denied(401, Realm_Admin)
           ELSE Authorized

(***************************************************************************)
(* Environment and request inputs                                          *)
(***************************************************************************)
AdminUser == <<97>>        \* "a", the configured ADMIN_USER
AdminPass == <<98>>        \* "b", the configured ADMIN_PASS

MkEnv(u, p, db, tok) ==
  [ADMIN_USER |-> u, ADMIN_PASS |-> p, DATABASE_URL |-> db, BLOB_READ_WRITE_TOKEN |-> tok]

FullEnv == MkEnv(AdminUser, AdminPass, TRUE, TRUE)

\* the deployments tried: fully configured, without the admin credentials,
\* without the database url, without the Blob Store token
EnvSet ==
  { FullEnv,
    MkEnv(<< >>, << >>, TRUE, TRUE),
    MkEnv(AdminUser, AdminPass, FALSE, TRUE),
    MkEnv(AdminUser, AdminPass, TRUE, FALSE) }

MissingAdminEnv(e) == e.ADMIN_USER = << >> \/ e.ADMIN_PASS = << >>

\* the Express server refuses to start without DATABASE_URL, ADMIN_USER, ADMIN_PASS
ExpressRuns(e) == e.DATABASE_URL /\ ~MissingAdminEnv(e)

BasicHeader(credentials) == Str_Basic_ \o Base64Encode(credentials)

NoHeader == << >>
GoodHeader == BasicHeader(AdminUser \o <<COLON>> \o AdminPass)              \* a:b
WrongHeader == BasicHeader(AdminUser \o <<COLON, 99>>)                      \* a:c
ExtraColonHeader == BasicHeader(AdminUser \o <<COLON>> \o AdminPass \o <<COLON, 99>>)  \* a:b:c
DefaultCredsHeader == BasicHeader(Str_Admin \o <<COLON>> \o Str_magzme1234) \* Admin:magzme1234

\* the headers tried on every gated operation; those tried on the cleanup;
\* those tried when the gates themselves are examined
HeaderSet == {NoHeader, GoodHeader}
CleanupHeaderSet == HeaderSet \cup {ExtraColonHeader}
AdminHeaderSet == CleanupHeaderSet \cup {WrongHeader, DefaultCredsHeader, Str_Bearer_x}

\* what the Access Control Gate is specified to accept: exactly the header
\* "Basic " base64(ADMIN_USER ":" ADMIN_PASS), and only when both are configured
ExpectedHeader(adminUser, adminPass) == BasicHeader(adminUser \o <<COLON>> \o adminPass)
GateShouldAuthorize(e, hdr) ==
  ~MissingAdminEnv(e) /\ hdr = ExpectedHeader(e.ADMIN_USER, e.ADMIN_PASS)

(***************************************************************************)
(* URLs, rows, objects                                                     *)
(***************************************************************************)
\* a URL or path, as far as the handlers look at it: how it starts and the
\* host it names
Url(scheme, host) == [scheme |-> scheme, host |-> host]
NullUrl == Url("null", "")       \* null / undefined
EmptyUrl == Url("", "")          \* ""
BlankUrl == Url(" ", "")         \* whitespace only
Thrown == Url("throw", "")       \* the call threw instead of returning
HttpsBlob == Url("https://", "blob.vercel-storage.com")
HttpBlob == Url("http://", "blob.vercel-storage.com")
UploadsFile == Url("/uploads/", "")
PicsumUrl == Url("https://", "picsum.photos")
DummyUrl == Url("https://", "dummy.public.blob.vercel-storage.com")

Truthy(u) == u.scheme \notin {"null", ""}              \* !!u
TrimIsEmpty(u) == u.scheme \in {"", " "}               \* u.trim() === ""
StartsWithHttps(u) == u.scheme = "https://"            \* u.startsWith("https://")

\* what put() can do: throw, or return a url
PutOutcomes == {Thrown, EmptyUrl, HttpBlob, HttpsBlob}
\* the Blob Store write failed or returned an invalid URL
BadPut(u) == u = Thrown \/ ~Truthy(u) \/ TrimIsEmpty(u) \/ ~StartsWithHttps(u)

ALLOWED_MIME_TYPES == {"image/jpeg", "image/png", "image/webp", "image/jpg"}
ImageMimes == ALLOWED_MIME_TYPES \cup {"image/gif"}    \* mimetype.startsWith("image/")

\* the multipart body: the name of its file field, the filename and the
\* declared type of the part
File(field, name, mime) == [field |-> field, name |-> name, mime |-> mime]
NoFile == File("", "", "")
FileInputs ==
  { File("file", "a.png", "image/png"),
    File("file", "a.txt", "text/plain"),
    File("other", "a.png", "image/png"),
    NoFile }

\* a row of the photos table: the two columns that point at the stored
\* object; via records the handler that created the row
Row(blobUrl, storagePath, via) ==
  [blobUrl |-> blobUrl, storagePath |-> storagePath, via |-> via]

Ids == 1..MaxIds

\* a request suspended at an await: calls counts the calls it has made to the
\* Blob Store
Request(op, variant, pc) ==
  [op |-> op, variant |-> variant, pc |-> pc, hdr |-> NoHeader, id |-> 0,
   put |-> NullUrl, calls |-> 0]

\* a response: ran tells whether the handler's own logic ran, calls and inserts
\* count the Blob Store calls and the rows the request made
Response(op, variant, status) ==
  [op |-> op, variant |-> variant, status |-> status, www |-> "", hdr |-> NoHeader,
   id |-> 0, ran |-> FALSE, put |-> NullUrl, items |-> << >>, deletedCount |-> 0,
   blobDelFailed |-> FALSE, calls |-> 0, inserts |-> 0]
NoResponse == Response("none", "", 0)

AuthIdle == [pc |-> "unused"]
NoEditor == [open |-> FALSE]     \* no editor page is open

Pending == BagToSet(req)
HasRoom == BagCardinality(req) < MaxSlots
Suspend(r) == req' = req (+) SetToBag({r})
Resume(r, r2) == req' = (req (-) SetToBag({r})) (+) SetToBag({r2})
Finish(r) == req' = req (-) SetToBag({r})

\* the rows that uploads in flight may still create
InFlightUploads ==
  BagCardinality([r \in {x \in Pending : x.op = "upload"} |-> req[r]])

\* the server starts in one of the deployments E with an empty table
StartIn(E) ==
  /\ env \in E
  /\ photos = << >>
  /\ nextId = 0
  /\ deleted = {}
  /\ req = EmptyBag
  /\ resp = NoResponse
  /\ authCase = AuthIdle /\ editor = NoEditor

Init == StartIn({FullEnv})

\* res.end(...): a handler answers only once the previous response has left
Send(r) == resp' = r
Ready == resp = NoResponse

\* the response leaves the server
Deliver ==
  /\ resp # NoResponse
  /\ resp' = NoResponse
  /\ UNCHANGED <<env, deleted, photos, nextId, req, authCase, editor>>

(***************************************************************************)
(* Upload Pipeline                                                         *)
(***************************************************************************)
\* "api/photos.js" also stands for the two other copies of the same upload
\* handler (the earlier consolidated endpoint and the earlier /api/photos/upload),
\* which differ from it only in the columns they pass to create
UploadVariants == {"api/photos.js", "api/photos/upload.js", "express"}
ValidatesUrl(variant) == variant \in {"api/photos.js", "part_009"}
ChecksUploadEnv(variant) == variant \in {"api/photos.js", "part_009"}

\* the busboy file/data/end handlers and the first two tests of the finish
\* handler: 0 when the upload goes on to put(), else the status answered
BusboyVerdict(file) ==
  IF file.field # "file" THEN 400                        \* fileName stays null
  ELSE IF file.mime \notin ALLOWED_MIME_TYPES THEN 400   \* uploadError
  ELSE IF file.name = "" THEN 400                        \* !fileName
  ELSE 0

\* multer: single("file"), fileFilter, then the handler's !req.file test
MulterVerdict(file) ==
  IF file = NoFile THEN 400                              \* No file uploaded
  ELSE IF file.field # "file" THEN 400                   \* MulterError: unexpected field
  ELSE IF file.mime \notin ImageMimes THEN 500           \* fileFilter error, generic 500
  ELSE 0

UploadVerdict(variant, e, file) ==
  IF variant = "express" THEN MulterVerdict(file)
  ELSE IF ChecksUploadEnv(variant) /\ ~e.DATABASE_URL THEN 500
  ELSE IF ChecksUploadEnv(variant) /\ ~e.BLOB_READ_WRITE_TOKEN THEN 500
  ELSE BusboyVerdict(file)

UploadStart(variant, file) ==
  /\ Ready
  /\ HasRoom
  /\ variant = "express" => ExpressRuns(env)
  /\ nextId + InFlightUploads < MaxIds
  /\ IF UploadVerdict(variant, env, file) # 0
     THEN /\ Send(Response("upload", variant, UploadVerdict(variant, env, file)))
          /\ UNCHANGED req
     ELSE /\ Suspend(Request("upload", variant, "put"))
          /\ UNCHANGED resp
  /\ UNCHANGED <<env, deleted, photos, nextId, authCase, editor>>

\* PutVerdict without the catch around put(): a throw is not noticed
PutVerdict_NoCatch(variant, u) ==
  IF ~ValidatesUrl(variant) THEN 0
  ELSE IF ~Truthy(u) \/ TrimIsEmpty(u) THEN 500
  ELSE IF ~StartsWithHttps(u) THEN 500
  ELSE 0

\* after `await put(...)`: 0 when the handler goes on to create the row
PutVerdict(variant, u) ==
  IF u = Thrown THEN 500
  ELSE IF ~ValidatesUrl(variant) THEN 0
  ELSE IF ~Truthy(u) \/ TrimIsEmpty(u) THEN 500
  ELSE IF ~StartsWithHttps(u) THEN 500
  ELSE 0

\* await put(...) / multer's disk storage: the write returns u
UploadPut(r, u) ==
  /\ Ready
  /\ r \in Pending
  /\ r.op = "upload" /\ r.pc = "put"
  /\ IF r.variant = "express"
     THEN u \in {Thrown, UploadsFile}
     ELSE u \in PutOutcomes
  /\ IF PutVerdict(r.variant, u) # 0
     THEN /\ Send([Response("upload", r.variant, PutVerdict(r.variant, u))
                     EXCEPT !.ran = TRUE, !.put = u, !.calls = r.calls + 1])
          /\ Finish(r)
     ELSE /\ Resume(r, [r EXCEPT !.pc = "create", !.put = u, !.calls = r.calls + 1])
          /\ UNCHANGED resp
  /\ UNCHANGED <<env, deleted, photos, nextId, authCase, editor>>

\* the row the handler passes to prisma.photo.create
UploadRow(r) ==
  IF r.variant = "express"
  THEN Row(NullUrl, r.put, "upload")
  ELSE Row(r.put, NullUrl, "upload")

\* a store that hands out the lowest id not in use
PrismaCreate_ReusesId(row) ==
  LET id == CHOOSE i \in 1..(nextId + 1) :
              i \notin DOMAIN photos /\ \A j \in 1..(i - 1) : j \in DOMAIN photos
  IN  /\ photos' = [x \in (DOMAIN photos) \cup {id} |-> IF x = id THEN row ELSE photos[x]]
      /\ nextId' = nextId + 1

\* prisma.photo.create: the store generates the id
PrismaCreate(row) ==
  /\ photos' = [id \in (DOMAIN photos) \cup {nextId + 1} |->
                  IF id = nextId + 1 THEN row ELSE photos[id]]
  /\ nextId' = nextId + 1

UploadCreate(r, ok) ==
  /\ Ready
  /\ r \in Pending
  /\ r.op = "upload" /\ r.pc = "create"
  /\ ok => env.DATABASE_URL
  /\ IF ok
     THEN /\ PrismaCreate(UploadRow(r))
          /\ Send([Response("upload", r.variant, 201)
                     EXCEPT !.ran = TRUE, !.put = r.put, !.calls = r.calls,
                            !.id = nextId + 1, !.inserts = 1])
     ELSE /\ Send([Response("upload", r.variant, 500)
                     EXCEPT !.ran = TRUE, !.put = r.put, !.calls = r.calls])
          /\ UNCHANGED <<photos, nextId>>
  /\ Finish(r)
  /\ UNCHANGED <<env, deleted, authCase, editor>>

(***************************************************************************)
(* Admin handlers: what each one does before its own logic runs            *)
(***************************************************************************)
\* api/admin/photos/index.js checkAuth: as checkBasicAuthSync, without headers
checkAuth(adminUser, adminPass, authHeader) ==
  IF adminUser = << >> \/ adminPass = << >>
  THEN Denied(500, "")
  ELSE IF authHeader = << >> \/ ~StartsWith(authHeader, Str_Basic_)
  THEN Denied(401, "")
  ELSE IF Base64Credentials(authHeader) = << >>
  THEN Denied(401, "")
  ELSE IF SplitMatch(DecodeCredentials(Base64Credentials(authHeader)), adminUser, adminPass)
  THEN Authorized
  ELSE Denied(401, "")

\* handlers that test ADMIN_USER / ADMIN_PASS, then DATABASE_URL, then call
\* checkBasicAuthSync, and answer a denial with the "Admin" challenge
HardCheckedGate(e, hdr, checksDb) ==
  IF MissingAdminEnv(e) THEN Denied(500, "")
  ELSE IF checksDb /\ ~e.DATABASE_URL THEN Denied(500, "")
  ELSE LET a == checkBasicAuthSync(e.ADMIN_USER, e.ADMIN_PASS, hdr)
       IN  IF a.authorized THEN Authorized ELSE Denied(a.status, Realm_Admin)

\* GET /api/admin (api/admin/index.js)
DashboardGate(e, hdr) == HardCheckedGate(e, hdr, FALSE)

\* GET /api/admin, the handler with the inline check
InlineDashboardGate(e, hdr) == dashboardAuth(e.ADMIN_USER, e.ADMIN_PASS, hdr)

\* GET /api/admin/photos, first handler: requireAuth(req) of api/_lib/basicAuth.js
RequireAuthListGate(e, hdr) == checkBasicAuthSync(e.ADMIN_USER, e.ADMIN_PASS, hdr)

\* GET /api/admin/photos, second handler: env checks, then checkAuth
CheckAuthListGate(e, hdr) ==
  IF MissingAdminEnv(e) THEN Denied(500, "")
  ELSE IF ~e.DATABASE_URL THEN Denied(500, "")
  ELSE LET a == checkAuth(e.ADMIN_USER, e.ADMIN_PASS, hdr)
       IN  IF a.authorized THEN Authorized ELSE Denied(a.status, Realm_Admin)

\* GET /api/admin/photos/[id]/download
DownloadGate(e, hdr) == HardCheckedGate(e, hdr, TRUE)

\* POST /api/admin/photos/[id]/delete
DeleteGate(e, hdr) == HardCheckedGate(e, hdr, TRUE)

\* every route of the Express admin router: router.use(basicAuth)
ExpressGate(e, hdr) == basicAuth(e.ADMIN_USER, e.ADMIN_PASS, hdr)

\* DELETE, POST op=test-insert and POST seed of api/photos.js: requireAuth,
\* then the DATABASE_URL test (a 500 from inside an authorized request)
PhotosJsGate(e, hdr) == requireAuth(e.ADMIN_USER, e.ADMIN_PASS, hdr)

\* DELETE of the consolidated endpoint and POST upload-test: checkBasicAuthSync
SyncGate(e, hdr) ==
  LET a == checkBasicAuthSync(e.ADMIN_USER, e.ADMIN_PASS, hdr)
  IN  IF a.authorized THEN Authorized ELSE Denied(a.status, a.www)

Rejection(op, variant, hdr, gate) ==
  [Response(op, variant, gate.status) EXCEPT !.www = gate.www, !.hdr = hdr]

(***************************************************************************)
(* Row-creating test endpoints                                             *)
(***************************************************************************)
\* "api/photos.js test-insert" also stands for the JSON seed branch of the
\* same handler: the same gate, the same DATABASE_URL test, the same url
TestInsertVariants == {"api/photos.js test-insert", "part_009 upload-test"}

TestInsertGate(variant, e, hdr) ==
  IF variant = "part_009 upload-test" THEN SyncGate(e, hdr) ELSE PhotosJsGate(e, hdr)

TestInsertRow(variant) ==
  IF variant = "part_009 upload-test"
  THEN Row(DummyUrl, NullUrl, "upload-test")
  ELSE Row(PicsumUrl, NullUrl, "test-insert")

TestInsert(variant, hdr) ==
  /\ Ready
  /\ nextId + InFlightUploads < MaxIds
  /\ LET gate == TestInsertGate(variant, env, hdr)
         sent == IF variant = "part_009 upload-test" THEN 200 ELSE 201
     IN  IF ~gate.authorized
         THEN /\ Send(Rejection("test-insert", variant, hdr, gate))
              /\ UNCHANGED <<photos, nextId>>
         ELSE IF ~env.DATABASE_URL
         THEN /\ Send([Response("test-insert", variant, 500) EXCEPT !.hdr = hdr, !.ran = TRUE])
              /\ UNCHANGED <<photos, nextId>>
         ELSE /\ PrismaCreate(TestInsertRow(variant))
              /\ Send([Response("test-insert", variant, sent)
                         EXCEPT !.hdr = hdr, !.ran = TRUE, !.id = nextId + 1,
                                !.inserts = 1])
  /\ UNCHANGED <<env, deleted, req, authCase, editor>>

(***************************************************************************)
(* Deletion Service                                                        *)
(***************************************************************************)
\* the where clause without its second branch
LegacyWhere_NullOnly(row) == row.blobUrl = NullUrl

\* where: { OR: [{ blobUrl: null }, { blobUrl: "" }] }
LegacyWhere(row) == row.blobUrl = NullUrl \/ row.blobUrl = EmptyUrl

\* prisma.photo.deleteMany({ where }): the rows that remain
DeleteMany(rows) == [id \in {x \in DOMAIN rows : ~LegacyWhere(rows[x])} |-> rows[id]]

CleanupVariants == {"api/photos.js", "part_013"}

CleanupGate(variant, e, hdr) ==
  IF variant = "api/photos.js" THEN PhotosJsGate(e, hdr) ELSE SyncGate(e, hdr)

\* DELETE /api/photos: the gate, the DATABASE_URL test, deleteMany
Cleanup(variant, hdr) ==
  /\ Ready
  /\ LET gate == CleanupGate(variant, env, hdr)
     IN  IF ~gate.authorized
         THEN /\ Send(Rejection("cleanup", variant, hdr, gate))
              /\ UNCHANGED photos
         ELSE IF ~env.DATABASE_URL
         THEN /\ Send([Response("cleanup", variant, 500) EXCEPT !.hdr = hdr, !.ran = TRUE])
              /\ UNCHANGED photos
         ELSE /\ photos' = DeleteMany(photos)
              /\ Send([Response("cleanup", variant, 200)
                         EXCEPT !.hdr = hdr, !.ran = TRUE,
                                !.deletedCount = Cardinality(DOMAIN photos)
                                                 - Cardinality(DOMAIN DeleteMany(photos))])
  /\ UNCHANGED <<env, deleted, nextId, req, authCase, editor>>

DeleteVariants == {"part_005", "express"}

SingleDeleteGate(variant, e, hdr) ==
  IF variant = "express" THEN ExpressGate(e, hdr) ELSE DeleteGate(e, hdr)

\* the object the handler tries to remove before the row, NullUrl when none
DeleteTarget(variant, e, row) ==
  IF variant = "express" THEN row.storagePath
  ELSE IF Truthy(row.blobUrl) /\ e.BLOB_READ_WRITE_TOKEN THEN row.blobUrl
  ELSE NullUrl

\* DeleteStart without the `if (!photo)` test: the id that is not there is
\* treated as deleted
DeleteStart_NoNotFound(variant, hdr, id) ==
  /\ Ready
  /\ HasRoom
  /\ variant = "express" => ExpressRuns(env)
  /\ LET gate == SingleDeleteGate(variant, env, hdr)
     IN  IF ~gate.authorized
         THEN /\ Send(Rejection("delete", variant, hdr, gate))
              /\ UNCHANGED req
         ELSE IF id \notin DOMAIN photos
         THEN /\ Send([Response("delete", variant, 302)
                         EXCEPT !.hdr = hdr, !.id = id, !.ran = TRUE])
              /\ UNCHANGED req
         ELSE IF variant = "express" /\ photos[id].storagePath = NullUrl
         THEN /\ Send([Response("delete", variant, 500)
                         EXCEPT !.hdr = hdr, !.id = id, !.ran = TRUE])
              /\ UNCHANGED req
         ELSE /\ Suspend([Request("delete", variant, "row")
                            EXCEPT !.hdr = hdr, !.id = id,
                                   !.put = DeleteTarget(variant, env, photos[id])])
              /\ UNCHANGED resp
  /\ UNCHANGED <<env, deleted, photos, nextId, authCase, editor>>

\* the gate, then photo = await prisma.photo.findUnique({ where: { id } })
DeleteStart(variant, hdr, id) ==
  /\ Ready
  /\ HasRoom
  /\ variant = "express" => ExpressRuns(env)
  /\ LET gate == SingleDeleteGate(variant, env, hdr)
     IN  IF ~gate.authorized
         THEN /\ Send(Rejection("delete", variant, hdr, gate))
              /\ UNCHANGED req
         ELSE IF id \notin DOMAIN photos
         THEN /\ Send([Response("delete", variant, 404)
                         EXCEPT !.hdr = hdr, !.id = id, !.ran = TRUE])
              /\ UNCHANGED req
         ELSE IF variant = "express" /\ photos[id].storagePath = NullUrl
         THEN \* path.join(uploadsDir, null) throws; the outer catch answers 500
              /\ Send([Response("delete", variant, 500)
                         EXCEPT !.hdr = hdr, !.id = id, !.ran = TRUE])
              /\ UNCHANGED req
         ELSE /\ Suspend([Request("delete", variant, "row")
                            EXCEPT !.hdr = hdr, !.id = id,
                                   !.put = DeleteTarget(variant, env, photos[id])])
              /\ UNCHANGED resp
  /\ UNCHANGED <<env, deleted, photos, nextId, authCase, editor>>

\* prisma.photo.delete({ where: { id } }): the rows that remain
PrismaDelete(rows, id) == [x \in (DOMAIN rows) \ {id} |-> rows[x]]

\* the rest of the handler: await del(photo.blobUrl) / await fs.unlink(filePath)
\* when there is an object to remove, its failure caught and logged; then
\* await prisma.photo.delete(...), which throws when the row is not there;
\* then the redirect.  blobOk: the object could be removed
DeleteRow(r, blobOk) ==
  /\ Ready
  /\ r \in Pending
  /\ r.op = "delete" /\ r.pc = "row"
  /\ r.put = NullUrl => blobOk
  /\ LET calls == IF r.put = NullUrl THEN 0 ELSE 1
     IN  IF r.id \in DOMAIN photos
         THEN /\ photos' = PrismaDelete(photos, r.id)
              /\ deleted' = deleted \cup {r.id}
              /\ Send([Response("delete", r.variant, 302)
                         EXCEPT !.hdr = r.hdr, !.id = r.id, !.ran = TRUE, !.calls = calls,
                                !.blobDelFailed = ~blobOk])
         ELSE /\ Send([Response("delete", r.variant, 500)
                         EXCEPT !.hdr = r.hdr, !.id = r.id, !.ran = TRUE, !.calls = calls,
                                !.blobDelFailed = ~blobOk])
              /\ UNCHANGED <<photos, deleted>>
  /\ Finish(r)
  /\ UNCHANGED <<env, nextId, authCase, editor>>

(***************************************************************************)
(* Lookup, listing and the read-only admin pages                           *)
(***************************************************************************)
\* GET /api/photos/:id of the Express server
Lookup(id) ==
  /\ Ready
  /\ ExpressRuns(env)
  /\ Send([Response("lookup", "express", IF id \in DOMAIN photos THEN 200 ELSE 404)
             EXCEPT !.id = id, !.ran = TRUE])
  /\ UNCHANGED <<env, deleted, photos, nextId, req, authCase, editor>>

\* the client-supplied limit: absent, or a number
Limit(present, n) == [present |-> present, n |-> n]
LimitInputs == {Limit(FALSE, 0), Limit(TRUE, 0), Limit(TRUE, 1)}

\* Math.max(1, Math.min(100, Number(limitRaw ?? 50) || 50))
ClampLimit(raw) ==
  LET n == IF raw.present THEN raw.n ELSE 50
      m == IF n = 0 THEN 50 ELSE n
      c == IF m < 100 THEN m ELSE 100
  IN  IF c > 1 THEN c ELSE 1

\* Math.min(parseInt(req.query.limit) || 50, 100)
ExpressLimit(raw) ==
  LET n == IF raw.present /\ raw.n # 0 THEN raw.n ELSE 50
  IN  IF n < 100 THEN n ELSE 100

\* where: { AND: [{ blobUrl: { not: null } }, { blobUrl: { not: "" } }] }
HasUrlWhere(row) == row.blobUrl # NullUrl /\ row.blobUrl # EmptyUrl

\* orderBy createdAt desc: ids are generated in creation order
RECURSIVE NewestFirst(_)
NewestFirst(S) ==
  IF S = {} THEN << >>
  ELSE LET m == CHOOSE x \in S : \A y \in S : y <= x
       IN  <<m>> \o NewestFirst(S \ {m})

Take(s, n) == SubSeq(s, 1, IF Len(s) < n THEN Len(s) ELSE n)

ListVariants == {"api/photos.js", "part_013", "express"}

\* findMany({ where, orderBy: { createdAt: "desc" }, take: limit }): the ids returned
ListItems(variant, rows, raw) ==
  IF variant = "api/photos.js"
  THEN Take(NewestFirst({id \in DOMAIN rows : HasUrlWhere(rows[id])}), ClampLimit(raw))
  ELSE IF variant = "part_013"
  THEN Take(NewestFirst(DOMAIN rows), ClampLimit(raw))
  ELSE Take(NewestFirst(DOMAIN rows), ExpressLimit(raw))

List(variant, raw) ==
  /\ Ready
  /\ variant = "express" => ExpressRuns(env)
  /\ Send([Response("list", variant, 200)
             EXCEPT !.items = ListItems(variant, photos, raw), !.ran = TRUE])
  /\ UNCHANGED <<env, deleted, photos, nextId, req, authCase, editor>>

AdminReadOps ==
  { <<"dashboard", "api/admin/index.js">>, <<"dashboard", "part_011">>,
    <<"dashboard", "express">>,
    <<"admin-list", "api/admin/photos/index.js requireAuth">>,
    <<"admin-list", "api/admin/photos/index.js checkAuth">>,
    <<"admin-list", "express">>,
    <<"download", "part_006">>, <<"download", "express">> }

AdminReadGate(op, variant, e, hdr) ==
  IF variant = "express" THEN ExpressGate(e, hdr)
  ELSE IF variant = "api/admin/index.js" THEN DashboardGate(e, hdr)
  ELSE IF variant = "part_011" THEN InlineDashboardGate(e, hdr)
  ELSE IF variant = "api/admin/photos/index.js requireAuth" THEN RequireAuthListGate(e, hdr)
  ELSE IF variant = "api/admin/photos/index.js checkAuth" THEN CheckAuthListGate(e, hdr)
  ELSE DownloadGate(e, hdr)

\* the status of a download once the gate has passed; fetched: the object
\* could be read
DownloadStatus(variant, rows, id, fetched) ==
  IF id \notin DOMAIN rows THEN 404
  ELSE IF variant = "express"
  THEN (IF rows[id].storagePath = NullUrl \/ ~fetched THEN 500 ELSE 200)
  ELSE IF ~Truthy(rows[id].blobUrl) THEN 400
  ELSE IF ~fetched THEN 500 ELSE 200

\* dashboard, admin photo list, download: the gate, then a read-only page
AdminRead(op, variant, hdr, id, fetched) ==
  /\ Ready
  /\ variant = "express" => ExpressRuns(env)
  /\ op # "download" => (id = 1 /\ fetched)
  /\ LET gate == AdminReadGate(op, variant, env, hdr)
     IN  IF ~gate.authorized
         THEN Send(Rejection(op, variant, hdr, gate))
         ELSE Send([Response(op, variant,
                             IF op = "download"
                             THEN DownloadStatus(variant, photos, id, fetched)
                             ELSE IF op = "dashboard" /\ variant = "express" THEN 302
                             ELSE 200)
                      EXCEPT !.hdr = hdr, !.ran = TRUE,
                             !.id = IF op = "download" THEN id ELSE 0])
  /\ UNCHANGED <<env, deleted, photos, nextId, req, authCase, editor>>

(***************************************************************************)
(* The server                                                              *)
(***************************************************************************)
Serve ==
  \/ Deliver
  \/ \E v \in UploadVariants, f \in FileInputs : UploadStart(v, f)
  \/ \E r \in Pending, u \in PutOutcomes \cup {UploadsFile} : UploadPut(r, u)
  \/ \E r \in Pending, ok \in BOOLEAN : UploadCreate(r, ok)
  \/ \E v \in TestInsertVariants, h \in HeaderSet : TestInsert(v, h)
  \/ \E v \in CleanupVariants, h \in CleanupHeaderSet : Cleanup(v, h)
  \/ \E v \in DeleteVariants, h \in HeaderSet, id \in Ids : DeleteStart(v, h, id)
  \/ \E r \in Pending, ok \in BOOLEAN : DeleteRow(r, ok)
  \/ \E id \in Ids : Lookup(id)
  \/ \E v \in ListVariants, l \in LimitInputs : List(v, l)

Next == Serve

Spec == Init /\ [][Next]_vars

(***************************************************************************)
(* The operations behind the Access Control Gate, under every deployment   *)
(* and header: those that change the Metadata Store, and the read-only     *)
(* admin pages                                                             *)
(***************************************************************************)
AdminNext ==
  \/ Deliver
  \/ \E v \in TestInsertVariants, h \in AdminHeaderSet : TestInsert(v, h)
  \/ \E v \in CleanupVariants, h \in AdminHeaderSet : Cleanup(v, h)
  \/ \E v \in DeleteVariants, h \in AdminHeaderSet, id \in Ids : DeleteStart(v, h, id)
  \/ \E r \in Pending, ok \in BOOLEAN : DeleteRow(r, ok)
  \/ \E o \in AdminReadOps, h \in AdminHeaderSet, id \in Ids, f \in BOOLEAN :
       AdminRead(o[1], o[2], h, id, f)

InitAdmin == StartIn(EnvSet)

SpecAdmin == InitAdmin /\ [][AdminNext]_vars

(***************************************************************************)
(* The gates as functions: credentials and a header are drawn, one gate    *)
(* is called on them                                                       *)
(***************************************************************************)
SeqsUpTo(S, n) == UNION {[1..k -> S] : k \in 0..n}

\* configured credentials: a user name has no colon, a password may
AuthUsers == {<<97>>, <<98>>}
AuthPasses == SeqsUpTo({98, COLON}, MaxCredLen - 2) \ {<< >>}

\* headers: Basic credentials of every string over a, b and the colon, the
\* same without padding or followed by a second token, another scheme, none
AuthHeaders ==
  {BasicHeader(c) : c \in SeqsUpTo({97, 98, COLON}, MaxCredLen)}
    \cup {Str_Basic_ \o SelectSeq(Base64Encode(c), LAMBDA x : x # EQ) :
            c \in SeqsUpTo({97, 98, COLON}, 3)}
    \cup {GoodHeader \o <<SP, 120>>, Str_Bearer_x, NoHeader}

GateNames == {"checkBasicAuthSync", "basicAuth", "requireAuth", "dashboardAuth"}

AuthCase(pc, user, pass, header, gate, result) ==
  [pc |-> pc, user |-> user, pass |-> pass, header |-> header, gate |-> gate,
   result |-> result]

InitAuth ==
  /\ env = FullEnv
  /\ photos = << >>
  /\ nextId = 0
  /\ deleted = {}
  /\ req = EmptyBag
  /\ resp = NoResponse
  /\ editor = NoEditor
  /\ \E u \in AuthUsers, p \in AuthPasses, h \in AuthHeaders :
       authCase = AuthCase("call", u, p, h, "", Denied(0, ""))

CallGate(gate, result) ==
  /\ authCase.pc = "call"
  /\ authCase' = [authCase EXCEPT !.pc = "done", !.gate = gate, !.result = result]
  /\ UNCHANGED <<env, photos, nextId, deleted, req, resp, editor>>

CallCheckBasicAuthSync ==
  CallGate("checkBasicAuthSync",
           checkBasicAuthSync(authCase.user, authCase.pass, authCase.header))
CallBasicAuth ==
  CallGate("basicAuth", basicAuth(authCase.user, authCase.pass, authCase.header))
CallRequireAuth ==
  CallGate("requireAuth", requireAuth(authCase.user, authCase.pass, authCase.header))
CallDashboardAuth ==
  CallGate("dashboardAuth", dashboardAuth(authCase.user, authCase.pass, authCase.header))

NextAuth ==
  \/ CallCheckBasicAuthSync
  \/ CallBasicAuth
  \/ CallRequireAuth
  \/ CallDashboardAuth

SpecAuth == InitAuth /\ [][NextAuth]_vars

(***************************************************************************)
(* One upload at a time, from the multipart body to the row: the size      *)
(* limit, the declared type and the file field.  The deployment is fully   *)
(* configured, so the handlers' tests of the environment pass.  "part_009" *)
(* also stands for the upload of the consolidated endpoint part_013, which *)
(* passes the same columns to create.                                      *)
(***************************************************************************)
\* parseInt(process.env.MAX_FILE_MB || "10") * 1024 * 1024, MAX_FILE_MB unset
MAX_FILE_SIZE == 10 * 1024 * 1024

\* a multipart body: the field that carries its file part ("" when it has
\* none), the part's filename, its declared type and its length in bytes
Body(field, name, mime, size) ==
  [field |-> field, name |-> name, mime |-> mime, size |-> size]

BodyInputs ==
  {Body(f, n, m, z) : f \in {"file", "other"}, n \in {"a.png", ""},
                      m \in {"image/png", "IMAGE/PNG", "image/gif", "text/plain"},
                      z \in {0, 1, MAX_FILE_SIZE, MAX_FILE_SIZE + 1}}
    \cup {Body("", "", "", 0)}

\* String.prototype.toLowerCase on the declared types tried
ToLowerCase(m) == IF m = "IMAGE/PNG" THEN "image/png" ELSE m

\* what the handler holds when the body has been read: status 0 and the
\* buffered length (fileData.length / req.file.size) when it goes on to the
\* store, else the status and error it answers
Parsed(status, error, body, length) ==
  [status |-> status, error |-> error, mimeType |-> body.mime, length |-> length]

\* busboy({ limits: { fileSize } }) with the file, data, end and finish
\* handlers.  A file stream of busboy delivers at most fileSize bytes: what
\* follows is dropped and the stream is marked truncated, which the handlers
\* do not look at.  Buffer.concat of no chunk is an empty Buffer, which `!`
\* does not take for missing.
BusboyParse(body) ==
  IF body.field # "file"                                  \* fileData, fileName stay null
  THEN Parsed(400, "NO_FILE", body, 0)
  ELSE IF ToLowerCase(body.mime) \notin ALLOWED_MIME_TYPES
  THEN Parsed(400, "Only JPEG, PNG, and WebP images are allowed", body, 0)
  ELSE LET size == IF body.size > MAX_FILE_SIZE THEN MAX_FILE_SIZE ELSE body.size
       IN  IF size > MAX_FILE_SIZE
           THEN Parsed(400, "File too large", body, 0)
           ELSE IF body.name = ""                         \* !fileName
           THEN Parsed(400, "NO_FILE", body, 0)
           ELSE Parsed(0, "", body, size)

\* multer: upload.single("file") with fileFilter and limits.fileSize, the
\* handler's !req.file test and the error handling middleware
MulterParse(body) ==
  IF body.field = "" \/ body.name = ""                    \* no part, or one without filename
  THEN Parsed(400, "No file uploaded", body, 0)
  ELSE IF body.field # "file"                             \* MulterError LIMIT_UNEXPECTED_FILE
  THEN Parsed(400, "Unexpected field", body, 0)
  ELSE IF body.mime \notin ImageMimes                     \* new Error(...): not a MulterError
  THEN Parsed(500, "Internal server error", body, 0)
  ELSE IF body.size > MAX_FILE_SIZE                       \* MulterError LIMIT_FILE_SIZE
  THEN Parsed(400, "File too large", body, 0)
  ELSE Parsed(0, "", body, body.size)

ParseVariants == {"api/photos.js", "api/photos/upload.js", "part_009", "express"}

UploadAnswer(variant, body, status, error) ==
  [op |-> "upload", variant |-> variant, body |-> body, status |-> status,
   error |-> error, put |-> NullUrl, calls |-> 0, inserts |-> 0, id |-> 0]

\* the request is read to its end and either answered or taken to the store
UploadParse(variant, body) ==
  /\ Ready
  /\ req = EmptyBag
  /\ nextId < MaxUploads
  /\ LET p == IF variant = "express" THEN MulterParse(body) ELSE BusboyParse(body)
     IN  IF p.status # 0
         THEN /\ Send(UploadAnswer(variant, body, p.status, p.error))
              /\ UNCHANGED req
         ELSE /\ Suspend([op |-> "upload", variant |-> variant, pc |-> "put",
                          body |-> body, parsed |-> p])
              /\ UNCHANGED resp
  /\ UNCHANGED <<env, deleted, photos, nextId, authCase, editor>>

\* the data passed to prisma.photo.create; api/photos.js passes no mimeType
UploadData(r, u) ==
  IF r.variant = "express"
  THEN [blobUrl |-> NullUrl, storagePath |-> u, via |-> "upload",
        mimeType |-> r.parsed.mimeType, size |-> r.parsed.length]
  ELSE [blobUrl |-> u, storagePath |-> NullUrl, via |-> "upload",
        mimeType |-> IF r.variant = "api/photos.js" THEN ""
                     ELSE IF r.parsed.mimeType = "" THEN "image/png"
                     ELSE r.parsed.mimeType,
        size |-> r.parsed.length]

\* await put(fileName, fileData, ...) returning u (for multer, the file
\* written to disk), the tests of the returned url, await create, the answer
UploadStore(r, u, ok) ==
  /\ Ready
  /\ r \in Pending
  /\ r.op = "upload" /\ r.pc = "put"
  /\ IF r.variant = "express" THEN u \in {Thrown, UploadsFile} ELSE u \in PutOutcomes
  /\ PutVerdict(r.variant, u) # 0 => ok
  /\ LET answer == [UploadAnswer(r.variant, r.body, 500, "Error uploading photo")
                      EXCEPT !.put = u, !.calls = 1]
     IN  IF PutVerdict(r.variant, u) # 0 \/ ~ok
         THEN /\ Send(answer)
              /\ UNCHANGED <<photos, nextId>>
         ELSE /\ PrismaCreate(UploadData(r, u))
              /\ Send([answer EXCEPT !.status = 201, !.error = "", !.inserts = 1,
                                     !.id = nextId + 1])
  /\ Finish(r)
  /\ UNCHANGED <<env, deleted, authCase, editor>>

NextUpload ==
  \/ Deliver
  \/ \E v \in ParseVariants, b \in BodyInputs : UploadParse(v, b)
  \/ \E r \in Pending, u \in PutOutcomes \cup {UploadsFile}, ok \in BOOLEAN : UploadStore(r, u, ok)

SpecUpload == Init /\ [][NextUpload]_vars

(***************************************************************************)
(* The list endpoints: the limit they compute from the query string, the   *)
(* rows they ask for and what they return for each row.  Numbers are       *)
(* JavaScript numbers as far as a limit goes: NaN, or a number kept in     *)
(* thousandths.                                                            *)
(***************************************************************************)
NaN == [nan |-> TRUE, v |-> 0]
Num(n) == [nan |-> FALSE, v |-> n * 1000]

\* parseInt(s, 10): an optional sign, then the longest run of digits
parseInt(s) ==
  LET neg  == Len(s) > 0 /\ s[1] = 45
      body == IF neg THEN Tail(s) ELSE s
      k    == CHOOSE n \in 0..Len(body) :
                /\ \A i \in 1..n : body[i] \in 48..57
                /\ n < Len(body) => body[n + 1] \notin 48..57
      val[i \in 0..k] == IF i = 0 THEN 0 ELSE val[i - 1] * 10 + (body[i] - 48)
  IN  IF k = 0 THEN NaN ELSE Num(IF neg THEN 0 - val[k] ELSE val[k])

\* Number(s): "" is 0; an optional sign, digits, an optional point and
\* digits, with a digit somewhere; anything else is NaN
Number(s) ==
  LET neg  == Len(s) > 0 /\ s[1] = 45
      body == IF neg THEN Tail(s) ELSE s
      dot  == IndexOf(body, 46)
      int  == IF dot < 0 THEN body ELSE SubSeq(body, 1, dot)
      frac == IF dot < 0 THEN << >> ELSE SubSeq(body, dot + 2, Len(body))
      ival[i \in 0..Len(int)] == IF i = 0 THEN 0 ELSE ival[i - 1] * 10 + (int[i] - 48)
      fval[i \in 0..Len(frac)] ==
        IF i = 0 THEN 0 ELSE fval[i - 1] + (frac[i] - 48) * (1000 \div (10 ^ i))
      abs  == ival[Len(int)] * 1000 + fval[Len(frac)]
  IN  IF s = << >> THEN Num(0)
      ELSE IF /\ \A i \in DOMAIN int : int[i] \in 48..57
              /\ \A i \in DOMAIN frac : frac[i] \in 48..57
              /\ Len(int) + Len(frac) > 0
      THEN [nan |-> FALSE, v |-> IF neg THEN 0 - abs ELSE abs]
      ELSE NaN

ListEndpoints ==
  { "api/photos.js", "part_013", "api/photos/list.js cursor", "api/photos/list.js",
    "part_010", "part_010 withTimeout", "express", "express admin",
    "api/admin/photos/index.js requireAuth", "api/admin/photos/index.js checkAuth" }

\* what tells the endpoints apart: the where clause that leaves out rows
\* without blobUrl, the hasUrl flag on each item, the status answered when
\* the timer of withTimeout fires (0: the query is not raced against a timer),
\* whether the answer is JSON built from the blobUrl column
ListPolicy(ep) ==
  LET P(where, flag, timeout, json) ==
        [where |-> where, flag |-> flag, timeout |-> timeout, json |-> json]
  IN  CASE ep = "api/photos.js" -> P(TRUE, TRUE, 200, TRUE)
        [] ep \in {"part_013", "api/photos/list.js"} -> P(FALSE, TRUE, 200, TRUE)
        [] ep \in {"api/photos/list.js cursor", "part_010 withTimeout"} ->
             P(FALSE, FALSE, 504, TRUE)
        [] ep = "part_010" -> P(FALSE, FALSE, 0, TRUE)
        [] OTHER -> P(FALSE, FALSE, 0, FALSE)

\* the limit computed from the query parameter raw (Undefined when absent)
ListLimit(ep, raw) ==
  LET Or(x, d) == IF x.nan \/ x.v = 0 THEN d ELSE x             \* x || d
      Min(a, b) == IF a.nan \/ b.nan THEN NaN ELSE IF a.v < b.v THEN a ELSE b
      Max(a, b) == IF a.nan \/ b.nan THEN NaN ELSE IF a.v > b.v THEN a ELSE b
      OrStr(d) == IF raw \in {Undefined, << >>} THEN d ELSE raw  \* get("limit") || "50"
      s50 == <<53, 48>>
      s100 == <<49, 48, 48>>
  IN  CASE ep \in {"api/photos.js", "part_013", "api/photos/list.js", "part_010 withTimeout"} ->
             \* Math.max(1, Math.min(100, Number(limitRaw ?? 50) || 50))
             Max(Num(1), Min(Num(100), Or(IF raw = Undefined THEN Num(50) ELSE Number(raw),
                                          Num(50))))
        [] ep \in {"api/photos/list.js cursor", "api/admin/photos/index.js checkAuth"} ->
             \* Math.min(Math.max(1, parseInt(limitParam || "50", 10) || 50), 200)
             Min(Max(Num(1), Or(parseInt(OrStr(s50)), Num(50))), Num(200))
        [] ep = "part_010" ->
             \* Math.min(parseInt(get("limit") || "100", 10) || 100, 200)
             Min(Or(parseInt(OrStr(s100)), Num(100)), Num(200))
        [] ep \in {"express", "express admin"} ->
             \* Math.min(parseInt(req.query.limit) || 50, 100)
             Min(Or(parseInt(raw), Num(50)), Num(100))
        [] OTHER ->
             \* Math.min(parseInt(get("limit") || "50"), 100)
             Min(parseInt(OrStr(s50)), Num(100))

\* the query strings tried for limit: absent, and every string of at most
\* MaxLimitLen characters over 0 1 5 - . a
LimitStrings == SeqsUpTo({48, 49, 53, 45, 46, 97}, MaxLimitLen) \cup {Undefined}

\* the tables listed: rows without blobUrl and rows with one
ListTables ==
  UNION {[1..k -> {Row(NullUrl, NullUrl, "legacy"), Row(EmptyUrl, NullUrl, "legacy"),
                   Row(HttpsBlob, NullUrl, "upload")}] : k \in 0..MaxIds}

\* findMany({ where, orderBy: { createdAt: "desc" }, take }) and the map
\* over the rows: the items, hasUrl "absent" where an item carries no flag.
\* A negative take returns rows from the other end.
ListQuery(ep, rows, take) ==
  LET ids   == IF ListPolicy(ep).where
               THEN {id \in DOMAIN rows : HasUrlWhere(rows[id])} ELSE DOMAIN rows
      all   == NewestFirst(ids)
      found == IF take >= 0 THEN Take(all, take)
               ELSE SubSeq(all, (IF Len(all) + take < 0 THEN 0 ELSE Len(all) + take) + 1,
                           Len(all))
  IN  [i \in DOMAIN found |->
         [id |-> found[i],
          hasUrl |-> IF ~ListPolicy(ep).flag THEN "absent"
                     ELSE IF Truthy(rows[found[i]].blobUrl)
                             /\ ~TrimIsEmpty(rows[found[i]].blobUrl)
                     THEN "true" ELSE "false"]]

\* a list request: the limit, the query (which rejects a take that is not
\* an integer), the answer
ListCall(ep, raw) ==
  /\ Ready
  /\ LET limit  == ListLimit(ep, raw)
         take   == IF ep = "api/photos/list.js cursor" THEN limit.v \div 1000 + 1
                   ELSE limit.v \div 1000
         answer == [op |-> "list", variant |-> ep, raw |-> raw, limit |-> limit,
                    status |-> 500, items |-> << >>]
     IN  IF limit.nan \/ limit.v % 1000 # 0
         THEN Send(answer)
         ELSE Send([answer EXCEPT
                      !.status = 200,
                      !.items = IF ep = "api/photos/list.js cursor"
                                THEN Take(ListQuery(ep, photos, take), limit.v \div 1000)
                                ELSE ListQuery(ep, photos, take)])
  /\ UNCHANGED <<env, deleted, photos, nextId, req, authCase, editor>>

InitList ==
  /\ photos \in ListTables
  /\ env = FullEnv /\ nextId = Len(photos) /\ deleted = {}
  /\ req = EmptyBag /\ resp = NoResponse /\ authCase = AuthIdle /\ editor = NoEditor

NextList ==
  \/ Deliver
  \/ \E ep \in ListEndpoints, raw \in LimitStrings : ListCall(ep, raw)

SpecList == InitList /\ [][NextList]_vars

(***************************************************************************)
(* The awaited calls: each handler as the sequence of Blob Store and       *)
(* Metadata Store calls it awaits, and the timer it races them against,    *)
(* if any.  A call may return, throw, or never come back.                  *)
(***************************************************************************)
\* the calls a handler awaits in turn, by operation and variant
CallPlan ==
  [ep \in {<<"list", e>> : e \in ListEndpoints} |->
     IF ep[2] \in {"api/admin/photos/index.js requireAuth", "express admin"}
     THEN <<"count", "findMany">> ELSE <<"findMany">>]
  @@ (<<"upload", "api/photos.js">> :> <<"put", "create">>)
  @@ (<<"upload", "part_009">> :> <<"put", "create">>)
  @@ (<<"upload", "express">> :> <<"create">>)
  @@ (<<"lookup", "express">> :> <<"findUnique">>)
  @@ (<<"download", "part_006">> :> <<"findUnique", "fetch">>)
  @@ (<<"download", "express">> :> <<"findUnique">>)
  @@ (<<"delete", "part_005">> :> <<"findUnique", "del", "delete">>)
  @@ (<<"delete", "express">> :> <<"findUnique", "unlink", "delete">>)
  @@ (<<"cleanup", "api/photos.js">> :> <<"deleteMany">>)
  @@ (<<"cleanup", "part_013">> :> <<"deleteMany">>)

CallEndpoints == DOMAIN CallPlan

\* the status a handler answers when its withTimeout timer fires; 0 when
\* the handler arms no timer
TimeoutStatus(ep) == IF ep[1] = "list" THEN ListPolicy(ep[2]).timeout ELSE 0

\* the list endpoints that race their query against a timer
TimedEndpoints == {e \in ListEndpoints : ListPolicy(e).timeout # 0}

Awaiting(ep) == {r \in Pending : r.op = ep[1] /\ r.variant = ep[2]}

CallAnswer(r, status, timedOut) ==
  [op |-> r.op, variant |-> r.variant, status |-> status, timedOut |-> timedOut,
   items |-> << >>]

\* a request arrives and its handler runs to its first await
Arrive(ep) ==
  /\ HasRoom
  /\ Awaiting(ep) = {}
  /\ Suspend([op |-> ep[1], variant |-> ep[2], pc |-> 1])
  /\ UNCHANGED <<env, deleted, photos, nextId, resp, authCase, editor>>

\* the awaited call comes back: the handler goes on to its next await, or
\* answers; a call that throws is answered 500, except the removal of the
\* stored object, whose failure the delete handlers catch
CallReturns(r, ok) ==
  /\ Ready
  /\ LET plan   == CallPlan[<<r.op, r.variant>>]
         caught == plan[r.pc] \in {"del", "unlink"}
     IN  IF ~ok /\ ~caught
         THEN Finish(r) /\ Send(CallAnswer(r, 500, FALSE))
         ELSE IF r.pc < Len(plan)
         THEN Resume(r, [r EXCEPT !.pc = r.pc + 1]) /\ UNCHANGED resp
         ELSE /\ Finish(r)
              /\ Send(CallAnswer(r, CASE r.op = "upload" -> 201
                                      [] r.op = "delete" -> 302
                                      [] OTHER -> 200, FALSE))
  /\ UNCHANGED <<env, deleted, photos, nextId, authCase, editor>>

\* the timer of withTimeout fires before the query has come back: the catch
\* block answers
TimerFires(ep) ==
  /\ Ready
  /\ TimeoutStatus(ep) # 0
  /\ \E r \in Awaiting(ep) :
       Finish(r) /\ Send(CallAnswer(r, TimeoutStatus(ep), TRUE))
  /\ UNCHANGED <<env, deleted, photos, nextId, authCase, editor>>

NextCalls ==
  \/ Deliver
  \/ \E ep \in CallEndpoints : Arrive(ep)
  \/ \E r \in Pending, ok \in BOOLEAN : CallReturns(r, ok)
  \/ \E ep \in CallEndpoints : TimerFires(ep)

\* a timer that has been armed fires, and a response that has been written
\* leaves; nothing makes an external call come back
SpecCalls ==
  /\ Init
  /\ [][NextCalls]_vars
  /\ WF_vars(Deliver)
  /\ \A e \in TimedEndpoints : SF_vars(TimerFires(<<"list", e>>))

(***************************************************************************)
(* The download of the Express server: the path of the stored file and     *)
(* the test that keeps it inside the uploads directory.  A path is the     *)
(* sequence of its segments, a segment a string.                           *)
(***************************************************************************)
Str_dotdot == <<46, 46>>           \* ".."
Str_dot == <<46>>                  \* "."
Str_uploads == <<117>>             \* "u", standing for the directory name "uploads"
Str_uploads_old == <<117, 45>>     \* "u-", a name that starts with that of the uploads directory
Dirname == <<<<112>>, <<115>>>>    \* __dirname: /p/s

\* path.join / path.resolve on an absolute path: "." is dropped, ".." drops
\* the segment before it
Normalize(segs) ==
  LET f[i \in 0..Len(segs)] ==
        IF i = 0 THEN << >>
        ELSE IF segs[i] = Str_dot THEN f[i - 1]
        ELSE IF segs[i] = Str_dotdot
        THEN (IF f[i - 1] = << >> THEN << >> ELSE SubSeq(f[i - 1], 1, Len(f[i - 1]) - 1))
        ELSE Append(f[i - 1], segs[i])
  IN  f[Len(segs)]

\* the path as the string the code tests: /seg/seg
PathString(segs) ==
  LET g[i \in 0..Len(segs)] == IF i = 0 THEN << >> ELSE g[i - 1] \o <<47>> \o segs[i]
  IN  IF segs = << >> THEN <<47>> ELSE g[Len(segs)]

\* path.join(__dirname, "..", "uploads")
UploadsDir == Normalize(Dirname \o <<Str_dotdot, Str_uploads>>)

\* path.join(uploadsDir, photo.storagePath)
FilePath(storagePath) == Normalize(UploadsDir \o storagePath)

\* !resolvedPath.startsWith(resolvedUploadsDir) is false
PassesPathCheck(storagePath) ==
  StartsWith(PathString(FilePath(storagePath)), PathString(UploadsDir))

\* the storagePath column: every path of at most MaxPathLen segments
StoragePaths ==
  SeqsUpTo({Str_dotdot, Str_dot, Str_uploads, Str_uploads_old, <<97>>}, MaxPathLen)

\* GET /admin/photos/:id/download once the row is found: 403, or the file
\* is opened and streamed (500 when it cannot be read)
ExpressDownload(storagePath, readable) ==
  /\ Ready
  /\ Send([op |-> "download", variant |-> "express", storagePath |-> storagePath,
           path |-> FilePath(storagePath),
           opened |-> PassesPathCheck(storagePath),
           status |-> IF ~PassesPathCheck(storagePath) THEN 403
                      ELSE IF readable THEN 200 ELSE 500])
  /\ UNCHANGED <<env, deleted, photos, nextId, req, authCase, editor>>

NextPath ==
  \/ Deliver
  \/ \E p \in StoragePaths, readable \in BOOLEAN : ExpressDownload(p, readable)

SpecPath == Init /\ [][NextPath]_vars

(***************************************************************************)
(* sanitizeFilename, which prepares the name sent in Content-Disposition   *)
(***************************************************************************)
Str_photo == <<112, 104, 111, 116, 111>>     \* "photo"

\* sanitizeFilename without .replace(/"/g, "'")
sanitizeFilename_KeepsQuote(variant, filename) ==
  LET Sep(c) == IF c \in {47, 92} THEN 95 ELSE c
      s1 == [i \in DOMAIN filename |-> Sep(filename[i])]
      s2 == SelectSeq(s1, LAMBDA c : c \notin (0..31) \cup {127})
  IN  IF variant = "part_006" /\ filename = << >> THEN Str_photo
      ELSE SubSeq(s2, 1, IF Len(s2) < 255 THEN Len(s2) ELSE 255)

\* filename.replace(/[\/\\]/g, "_").replace(/[\x00-\x1F\x7F]/g, "")
\*         .replace(/"/g, "'").substring(0, 255);
\* part_006 answers "photo" for an empty name
sanitizeFilename(variant, filename) ==
  LET Sep(c) == IF c \in {47, 92} THEN 95 ELSE c
      Quote(c) == IF c = 34 THEN 39 ELSE c
      s1 == [i \in DOMAIN filename |-> Sep(filename[i])]
      s2 == SelectSeq(s1, LAMBDA c : c \notin (0..31) \cup {127})
      s3 == [i \in DOMAIN s2 |-> Quote(s2[i])]
  IN  IF variant = "part_006" /\ filename = << >> THEN Str_photo
      ELSE SubSeq(s3, 1, IF Len(s3) < 255 THEN Len(s3) ELSE 255)

\* the names tried: a run of "a" of a length around the limit, then every
\* string of at most MaxNameLen characters over / \ NUL US DEL " a
Filenames ==
  {[i \in 1..k |-> 97] \o t :
     k \in {0, 252, 253, 254, 255},
     t \in SeqsUpTo({47, 92, 0, 31, 127, 34, 97}, MaxNameLen)}

Sanitize(variant, filename) ==
  /\ Ready
  /\ Send([op |-> "sanitize", variant |-> variant, filename |-> filename,
           safe |-> sanitizeFilename(variant, filename)])
  /\ UNCHANGED <<env, deleted, photos, nextId, req, authCase, editor>>

NextSanitize ==
  \/ Deliver
  \/ \E v \in {"part_001", "part_006"}, f \in Filenames : Sanitize(v, f)

SpecSanitize == Init /\ [][NextSanitize]_vars

(***************************************************************************)
(* The list endpoints when the query throws: what the catch block makes    *)
(* of the error of the driver                                              *)
(***************************************************************************)
\* error.message of what prisma throws; the empty message makes
\* err?.message || String(err) fall to String(err)
ErrorMessages ==
  {"connect ECONNREFUSED 10.0.0.5:5432", "Can't reach database server at db:5432",
   "Query TIMEOUT on pool", ""}

\* the status and body of the catch block, by list endpoint
FailureAnswer(ep, msg) ==
  LET A(status, error, detail) == [status |-> status, error |-> error, detail |-> detail]
      isTimeout == msg = "Query TIMEOUT on pool"    \* String(err?.message || "").includes("TIMEOUT")
      text == IF msg = "" THEN "Error" ELSE msg     \* err?.message || String(err)
  IN  CASE ep \in {"api/photos.js", "part_013"} ->
             IF isTimeout THEN A(200, "", "") ELSE A(500, "PHOTO_API_ERROR", text)
        [] ep = "api/photos/list.js" ->
             IF isTimeout THEN A(200, "", "") ELSE A(500, "PHOTO_LIST_ERROR", text)
        [] ep = "api/photos/list.js cursor" ->
             IF msg = "Timeout"
             THEN A(504, "Database query timeout", "Query exceeded 5 second limit")
             ELSE A(500, "Database error", IF msg = "" THEN "Failed to query database" ELSE msg)
        [] ep = "part_010 withTimeout" ->
             IF isTimeout THEN A(504, "PHOTO_LIST_TIMEOUT", text)
             ELSE A(500, "PHOTO_LIST_ERROR", text)
        [] ep = "part_010" -> A(500, "Internal server error", "")
        [] ep = "express" -> A(500, "Error fetching photos", "")
        [] ep = "api/admin/photos/index.js checkAuth" -> A(500, "DB error", "")
        [] OTHER -> A(500, "Error loading photos", "")

\* a list request whose query throws msg
ListFails(ep, msg) ==
  /\ Ready
  /\ Send([op |-> "list", variant |-> ep, upstream |-> msg,
           answer |-> FailureAnswer(ep, msg)])
  /\ UNCHANGED <<env, deleted, photos, nextId, req, authCase, editor>>

SpecFail ==
  InitList /\ [][Deliver \/ \E ep \in ListEndpoints, m \in ErrorMessages : ListFails(ep, m)]_vars

(***************************************************************************)
(* POST /api/photos without a multipart body: the JSON seed branch         *)
(***************************************************************************)
\* body: "seed" is JSON with seed true, "json" other JSON, "garbage" a
\* string JSON.parse rejects, "none" no body.  The branch runs inside a try
\* whose catch falls through to the answer given to a body that is not
\* multipart; dbCalls counts the calls made to the Metadata Store.
SeedPost(hdr, body, createOk) ==
  /\ Ready
  /\ nextId < MaxIds
  /\ LET gate   == PhotosJsGate(env, hdr)
         answer(status, dbCalls, inserts) ==
           [k \in DOMAIN NoResponse \cup {"body", "dbCalls"} |->
              CASE k = "body" -> body
                [] k = "dbCalls" -> dbCalls
                [] k = "inserts" -> inserts
                [] k = "ran" -> TRUE
                [] k = "hdr" -> hdr
                [] OTHER -> Response("seed", "api/photos.js", status)[k]]
     IN  IF body # "seed"
         THEN Send(answer(400, 0, 0)) /\ UNCHANGED <<photos, nextId>>
         ELSE IF ~gate.authorized
         THEN Send(answer(401, 0, 0)) /\ UNCHANGED <<photos, nextId>>
         ELSE IF ~env.DATABASE_URL
         THEN Send(answer(500, 0, 0)) /\ UNCHANGED <<photos, nextId>>
         ELSE IF createOk
         THEN /\ PrismaCreate(Row(PicsumUrl, NullUrl, "seed"))
              /\ Send(answer(201, 1, 1))
         ELSE Send(answer(400, 1, 0)) /\ UNCHANGED <<photos, nextId>>
  /\ UNCHANGED <<env, deleted, req, authCase, editor>>

SpecSeed ==
  /\ InitAdmin
  /\ [][\/ AdminNext
        \/ \E h \in AdminHeaderSet, b \in {"seed", "json", "garbage", "none"},
              ok \in BOOLEAN : SeedPost(h, b, ok)]_vars

(***************************************************************************)
(* The cursor list of api/photos/list.js and a client that follows         *)
(* nextCursor.  A row carries its createdAt; ids are not ordered in time.  *)
(* The query orders by createdAt alone, so the order among rows created at *)
(* the same instant is chosen by the database, anew for each query.        *)
(***************************************************************************)
\* findMany({ orderBy: { createdAt: "desc" }, take: limit, ... }): the
\* variant that does not fetch the extra row
CursorPage_NoExtraRow(rows, order, limit, cursor) ==
  LET at      == IF cursor = 0 THEN 0
                 ELSE IF cursor \in DOMAIN rows
                 THEN CHOOSE i \in DOMAIN order : order[i] = cursor
                 ELSE Len(order)
      fetched == Take(SubSeq(order, at + 1, Len(order)), limit)
      hasNextPage == Len(fetched) > limit
      items   == IF hasNextPage THEN Take(fetched, limit) ELSE fetched
  IN  [fetched |-> fetched, items |-> items,
       nextCursor |-> IF hasNextPage /\ Len(items) > 0 THEN items[Len(items)] ELSE 0]

\* findMany({ orderBy: { createdAt: "desc" }, take: limit + 1, skip: 1,
\* cursor: { id } }), then hasNextPage, items and nextCursor.  order is the
\* order the database gives the rows for this query; cursor 0 is no cursor;
\* a cursor that names no row finds nothing.
CursorPage(rows, order, limit, cursor) ==
  LET at      == IF cursor = 0 THEN 0
                 ELSE IF cursor \in DOMAIN rows
                 THEN CHOOSE i \in DOMAIN order : order[i] = cursor
                 ELSE Len(order)
      fetched == Take(SubSeq(order, at + 1, Len(order)), limit + 1)
      hasNextPage == Len(fetched) > limit
      items   == IF hasNextPage THEN Take(fetched, limit) ELSE fetched
  IN  [fetched |-> fetched, items |-> items,
       nextCursor |-> IF hasNextPage /\ Len(items) > 0 THEN items[Len(items)] ELSE 0]

\* a list request: the first of a walk (any cursor the client sends), or
\* the next one, with the nextCursor of the page the client holds.  seen
\* is what the client has been given since it began; fromStart tells that
\* it began without a cursor.
CursorList(limit, first, order) ==
  /\ DOMAIN order = DOMAIN photos
  /\ \A i, j \in DOMAIN order :
       /\ i # j => order[i] # order[j]
       /\ i < j => photos[order[i]].createdAt >= photos[order[j]].createdAt
  /\ IF resp = NoResponse THEN first \in 0..(MaxRows + 1)
     ELSE first = 0 /\ resp.nextCursor # 0 /\ Len(resp.seen) <= MaxRows
  /\ LET cursor == IF resp = NoResponse THEN first ELSE resp.nextCursor
         page   == CursorPage(photos, order, limit, cursor)
     IN  Send([op |-> "list", variant |-> "api/photos/list.js cursor", status |-> 200,
               limit |-> limit, cursor |-> cursor, fetched |-> page.fetched,
               items |-> page.items, nextCursor |-> page.nextCursor,
               seen |-> (IF resp = NoResponse THEN << >> ELSE resp.seen) \o page.items,
               fromStart |-> IF resp = NoResponse THEN first = 0 ELSE resp.fromStart])
  /\ UNCHANGED <<env, deleted, photos, nextId, req, authCase, editor>>

SpecCursor ==
  /\ photos \in UNION {[1..n -> [createdAt : 1..2]] : n \in 0..MaxRows}
  /\ env = FullEnv /\ nextId = Len(photos) /\ deleted = {}
  /\ req = EmptyBag /\ resp = NoResponse /\ authCase = AuthIdle /\ editor = NoEditor
  /\ [][\/ Deliver
        \/ \E limit \in 1..2, first \in 0..(MaxRows + 1),
              order \in [DOMAIN photos -> DOMAIN photos] :
             CursorList(limit, first, order)]_vars

(***************************************************************************)
(* The client function uploadCapturedPhoto: two attempts at the upload     *)
(* endpoint, the second after any failure of the first                     *)
(***************************************************************************)
\* uploadCapturedPhoto(blob, filename) is called and reaches its first fetch
ClientCall ==
  /\ req = EmptyBag /\ Ready
  /\ nextId + 2 <= 2 * MaxCalls
  /\ Suspend([op |-> "uploadCapturedPhoto", attempt |-> 0, rows |-> 0, lastError |-> ""])
  /\ UNCHANGED <<env, deleted, photos, nextId, resp, authCase, editor>>

\* one pass of the loop: the server handles the POST and answers status,
\* having created a row exactly when it answers 201; the client sees the
\* answer ("read"), or fetch rejects ("network"), or response.json()
\* rejects on a 201 ("unreadable").  Any error is caught and, on the first
\* attempt, followed by the second.
ClientAttempt(r, status, sees) ==
  /\ Ready
  /\ sees = "unreadable" => status = 201
  /\ IF status = 201 THEN PrismaCreate(Row(HttpsBlob, NullUrl, "upload"))
     ELSE UNCHANGED <<photos, nextId>>
  /\ LET rows  == r.rows + (IF status = 201 THEN 1 ELSE 0)
         error == IF sees = "read" THEN "Upload failed" ELSE sees
         done(outcome, e) == [op |-> r.op, outcome |-> outcome, attempts |-> r.attempt + 1,
                              rows |-> rows, lastError |-> e, status |-> status]
     IN  IF sees = "read" /\ status = 201
         THEN Finish(r) /\ Send(done("returned", r.lastError))
         ELSE IF r.attempt < 1
         THEN /\ Resume(r, [r EXCEPT !.attempt = 1, !.rows = rows, !.lastError = error])
              /\ UNCHANGED resp
         ELSE Finish(r) /\ Send(done("threw", error))
  /\ UNCHANGED <<env, deleted, authCase, editor>>

SpecClient ==
  /\ Init
  /\ [][\/ Deliver
        \/ ClientCall
        \/ \E r \in Pending, status \in {201, 400, 500},
              sees \in {"read", "network", "unreadable"} : ClientAttempt(r, status, sees)]_vars

(***************************************************************************)
(* The upload handlers as listeners of the multipart parser: what each     *)
(* event does to fileData, fileName and uploadError, and when an answer    *)
(* is written.  The parser ends with finish or with error, not both; the   *)
(* other events come in any order before that.                             *)
(***************************************************************************)
\* bb.on("finish") without an answer when uploadError is set
OnFinish_SilentOnUploadError(r) ==
  IF r.uploadError # 0 THEN [r EXCEPT !.pc = "done"]
  ELSE IF ~r.fileData \/ ~r.fileName
  THEN [r EXCEPT !.pc = "done", !.answers = @ + 1, !.status = 400]
  ELSE [r EXCEPT !.pc = "storing"]

\* bb.on("finish"): the answer of uploadError, or 400 when no file was
\* read, or on to put and create
OnFinish(r) ==
  IF r.uploadError # 0
  THEN [r EXCEPT !.pc = "done", !.answers = @ + 1, !.status = r.uploadError]
  ELSE IF ~r.fileData \/ ~r.fileName
  THEN [r EXCEPT !.pc = "done", !.answers = @ + 1, !.status = 400]
  ELSE [r EXCEPT !.pc = "storing"]

\* the handler sets up its listeners and hands the body to the parser:
\* piped, pumped from a ReadableStream, given whole, or absent (bb.end())
BodyArrives(variant, shape) ==
  /\ req = EmptyBag
  /\ Suspend([op |-> "upload", variant |-> variant, shape |-> shape, pc |-> "parsing",
              input |-> shape # "none", fileName |-> FALSE, fileData |-> FALSE,
              uploadError |-> 0, answers |-> 0, status |-> 0])
  /\ UNCHANGED <<env, deleted, photos, nextId, resp, authCase, editor>>

\* one event: of the parser ("file" for the field file with an allowed
\* type, "badfile" with another type, "other" for another field, "end" of
\* the file stream, "finish", "error"), of the pump ("readfails":
\* reader.read() rejects and the catch ends the parser), or of the stores
\* ("stored", "storefails": put and create have returned, or one threw)
UploadEvent(r, ev) ==
  /\ r.op = "upload" /\ "shape" \in DOMAIN r
  /\ CASE ev \in {"file", "badfile", "other", "end"} -> r.pc = "parsing" /\ r.input
       [] ev = "readfails" -> r.pc = "parsing" /\ r.input /\ r.shape = "ReadableStream"
       [] ev \in {"finish", "error"} -> r.pc = "parsing"
       [] OTHER -> r.pc = "storing"
  /\ Resume(r,
       CASE ev = "file" -> [r EXCEPT !.fileName = TRUE]
         [] ev = "badfile" -> [r EXCEPT !.fileName = TRUE, !.uploadError = 400]
         [] ev = "other" -> r
         [] ev = "end" -> [r EXCEPT !.fileData = r.fileName /\ r.uploadError = 0]
         [] ev = "readfails" -> [r EXCEPT !.input = FALSE]
         [] ev = "finish" -> OnFinish(r)
         [] ev = "error" -> [r EXCEPT !.pc = "done", !.answers = @ + 1, !.status = 500]
         [] ev = "stored" -> [r EXCEPT !.pc = "done", !.answers = @ + 1, !.status = 201]
         [] OTHER -> [r EXCEPT !.pc = "done", !.answers = @ + 1, !.status = 500])
  /\ UNCHANGED <<env, deleted, photos, nextId, resp, authCase, editor>>

\* the request is over: what the client was sent
UploadOver(r) ==
  /\ Ready
  /\ r.op = "upload" /\ "shape" \in DOMAIN r /\ r.pc = "done"
  /\ Finish(r)
  /\ Send([op |-> "upload", variant |-> r.variant, shape |-> r.shape,
           answers |-> r.answers, status |-> r.status, fileData |-> r.fileData])
  /\ UNCHANGED <<env, deleted, photos, nextId, authCase, editor>>

SpecEvents ==
  /\ Init
  /\ [][\/ Deliver
        \/ \E v \in {"api/photos.js", "part_013", "api/photos/upload.js"},
              shape \in {"stream", "ReadableStream", "buffer", "none"} : BodyArrives(v, shape)
        \/ \E r \in Pending,
              ev \in {"file", "badfile", "other", "end", "readfails", "finish", "error",
                      "stored", "storefails"} : UploadEvent(r, ev)
        \/ \E r \in Pending : UploadOver(r)]_vars

(***************************************************************************)
(* The editor page: its content (images, stickers, texts, filter, bgColor, *)
(* bgImage), the history of undo and redo, and historyIndex.  A handler    *)
(* runs on the values of the render it was created in; the state updates   *)
(* it queues are applied in order once it returns.                         *)
(***************************************************************************)
\* useState(...): no image, filter "none", the first colour, no sticker or
\* text, history [] and historyIndex -1.  lastOp, beforeEdit and beforeUndo
\* remember what the user did last and what the content was before it.
EditorInit ==
  [open |-> TRUE,
   doc |-> [images |-> 0, stickers |-> <<0, 0>>, texts |-> 0, filter |-> 0,
            bgColor |-> 0, bgImage |-> 0],
   history |-> << >>, historyIndex |-> -1,
   resizing |-> FALSE,      \* resizeStartRef holds the sticker's id
   lastOp |-> "none", beforeEdit |-> 0, beforeUndo |-> 0]

\* pushHistory(), called n times by one handler: each call queues
\* setHistory(prev => [...prev.slice(0, historyIndex + 1), state]) and
\* setHistoryIndex(prev => prev + 1), with historyIndex and state those of
\* the render
pushHistory(e, n) ==
  LET h[i \in 0..n] ==
        IF i = 0 THEN e.history
        ELSE SubSeq(h[i - 1], 1, IF Len(h[i - 1]) < e.historyIndex + 1 THEN Len(h[i - 1])
                                 ELSE e.historyIndex + 1) \o <<e.doc>>
  IN  [e EXCEPT !.history = h[n], !.historyIndex = e.historyIndex + n]

\* the content after an edit: a photo put in a frame or removed, a sticker
\* added or resized, a text added, the filter or the background changed
Edited(doc, kind) ==
  CASE kind = "upload" -> [doc EXCEPT !.images = @ + 1]
    [] kind = "remove" -> [doc EXCEPT !.images = @ - 1]
    [] kind = "sticker" -> [doc EXCEPT !.stickers = <<@[1] + 1, @[2]>>]
    [] kind = "resize" -> [doc EXCEPT !.stickers = <<@[1], 1 - @[2]>>]
    [] kind = "text" -> [doc EXCEPT !.texts = @ + 1]
    [] kind = "filter" -> [doc EXCEPT !.filter = 1 - @]
    [] kind = "bgColor" -> [doc EXCEPT !.bgColor = 1 - @]
    [] OTHER -> [doc EXCEPT !.bgImage = 1 - @]

\* one event: an edit (pushHistory, then the change; files > 1 is the quick
\* upload of several files, which calls handleUpload for each of them in
\* one event; a resize calls pushHistory only when resizeStartRef does not
\* hold the sticker's id, and the timer removes the id after 1000 ms),
\* undo, or redo
EditorEvent(kind, files) ==
  /\ editor.open
  /\ LET e == editor
         uploaded[i \in 0..files] == IF i = 0 THEN e.doc ELSE Edited(uploaded[i - 1], "upload")
         pushes == IF kind = "resize" /\ e.resizing THEN 0 ELSE files
     IN  CASE kind = "undo" ->
                /\ files = 1
                /\ e.historyIndex > 0                    \* if (historyIndex <= 0) return
                /\ e.historyIndex <= Len(e.history)      \* history[historyIndex - 1] is there
                /\ editor' = [e EXCEPT !.doc = e.history[e.historyIndex],
                                       !.historyIndex = @ - 1,
                                       !.lastOp = IF e.lastOp = "edit" THEN "undo after edit"
                                                  ELSE "undo",
                                       !.beforeUndo = e.doc]
            [] kind = "redo" ->
                /\ files = 1
                /\ e.historyIndex < Len(e.history) - 1   \* if (historyIndex >= history.length - 1) return
                /\ editor' = [e EXCEPT !.doc = e.history[e.historyIndex + 2],
                                       !.historyIndex = @ + 1,
                                       !.lastOp = IF e.lastOp \in {"undo", "undo after edit"}
                                                  THEN "redo after undo" ELSE "redo"]
            [] kind = "timer" ->
                /\ files = 1
                /\ e.resizing
                /\ editor' = [e EXCEPT !.resizing = FALSE]
            [] OTHER ->
                /\ Len(e.history) < MaxEdits
                /\ files > 1 => kind = "upload"
                /\ kind = "upload" => e.doc.images + files <= MaxEdits
                /\ kind = "remove" => e.doc.images > 0
                /\ kind = "resize" => e.doc.stickers[1] > 0
                /\ kind = "sticker" => e.doc.stickers[1] < 1
                /\ kind = "text" => e.doc.texts < 1
                /\ editor' = [pushHistory(e, pushes) EXCEPT
                                !.doc = IF kind = "upload" THEN uploaded[files]
                                        ELSE Edited(e.doc, kind),
                                !.resizing = @ \/ kind = "resize",
                                !.lastOp = IF pushes = 0 THEN "resize goes on"
                                           ELSE IF files = 1 THEN "edit" ELSE "edits",
                                !.beforeEdit = IF pushes = 0 THEN @ ELSE e.doc]
  /\ UNCHANGED <<env, deleted, photos, nextId, req, resp, authCase>>

\* the page is opened: the state of useState's initial values
EditorOpen ==
  /\ editor = NoEditor
  /\ editor' = EditorInit
  /\ UNCHANGED <<env, deleted, photos, nextId, req, resp, authCase>>

EditorKinds ==
  {"upload", "remove", "sticker", "resize", "text", "filter", "bgColor", "bgImage",
   "undo", "redo", "timer"}

NextEditor ==
  \/ EditorOpen
  \/ \E kind \in EditorKinds, files \in 1..2 : EditorEvent(kind, files)

SpecEditor == StartIn({FullEnv}) /\ [][NextEditor]_vars

(***************************************************************************)
(* Properties of the Upload Pipeline                                       *)
(***************************************************************************)
\* a step that answers a request: op is the operation answered
Answers(op) == resp = NoResponse /\ resp' # NoResponse /\ resp'.op = op

\* a step of an upload request: one is suspended, resumed or answered
UploadStep ==
  \/ Answers("upload")
  \/ \E r \in BagToSet(req) \cup BagToSet(req') :
       r.op = "upload" /\ CopiesIn(r, req) # CopiesIn(r, req')

\* C1: an upload whose Blob Store put threw, or returned a url that is empty
\* or does not start with https://, leaves the Metadata Store without a new
\* row: the step that answers such an upload does not change the table.
C1_NoOrphanMetadata ==
  [][(Answers("upload") /\ resp'.variant # "express" /\ resp'.calls = 1
        /\ BadPut(resp'.put))
       => photos' = photos]_vars

\* C2: within one upload the row is inserted only after the put of that
\* upload has returned, at most once, and nothing else is written to the
\* Metadata Store: an upload waits at the put having made no call, or at the
\* create having made one call that returned; a step of an upload either
\* leaves the table alone, or is the step that ends the upload, taken from
\* the create, and adds exactly one row and changes no other.
C2_InsertOnlyAfterPut ==
  /\ [](\A r \in Pending : r.op = "upload" =>
          \/ r.pc = "put" /\ r.calls = 0
          \/ r.pc = "create" /\ r.calls = 1 /\ r.put \notin {Thrown, NullUrl})
  /\ [][UploadStep =>
          \/ photos' = photos /\ (resp'.op = "upload" => resp'.inserts = 0)
          \/ /\ Answers("upload")
             /\ resp'.inserts = 1 /\ resp'.calls = 1 /\ resp'.put # Thrown
             /\ \E r \in Pending :
                  /\ r.op = "upload" /\ r.pc = "create" /\ r.put = resp'.put
                  /\ req' = req (-) SetToBag({r})
             /\ nextId + 1 \notin DOMAIN photos
             /\ DOMAIN photos' = DOMAIN photos \cup {nextId + 1}
             /\ \A id \in DOMAIN photos : photos'[id] = photos[id]]_vars

\* an upload has been answered 201 after one put and one insert
C2_Witness ==
  /\ resp.op = "upload" /\ resp.status = 201
  /\ resp.calls = 1 /\ resp.inserts = 1
  /\ resp.id \in DOMAIN photos

\* C3: every row was created by the Upload Pipeline after a successful Blob
\* Store write: no operation other than an upload creates rows, and a row's
\* blobUrl, when it has one, is a url that a put of this system returned.
C3_RowsOnlyFromUploads ==
  \A id \in DOMAIN photos :
    /\ photos[id].via = "upload"
    /\ Truthy(photos[id].blobUrl) => photos[id].blobUrl \in PutOutcomes

(***************************************************************************)
(* Properties of the Access Control Gate                                   *)
(***************************************************************************)
\* the admin operations
AdminOps == {"dashboard", "admin-list", "download", "delete", "cleanup"}

HasBasicChallenge(www) == www \in {Realm_Admin, Realm_AdminPanel}

\* the deployment has what every admin handler tests before it answers
Configured(e) == ~MissingAdminEnv(e) /\ e.DATABASE_URL

\* C4 as stated: an admin request without an Authorization header is
\* answered 401 with a Basic challenge, and the handler's logic does not run.
C4_NoHeaderIs401 ==
  (resp.op \in AdminOps /\ resp.hdr = NoHeader)
    => resp.status = 401 /\ HasBasicChallenge(resp.www) /\ ~resp.ran

\* C4, amended: an admin request without an Authorization header never
\* reaches the handler's logic and is answered 401 or 500; where ADMIN_USER,
\* ADMIN_PASS and DATABASE_URL are all configured the answer is 401 with a
\* Basic challenge.
C4_NoHeaderDenied ==
  /\ \A r \in Pending : r.op = "delete" => r.hdr # NoHeader
  /\ (resp.op \in AdminOps /\ resp.hdr = NoHeader)
       => /\ ~resp.ran
          /\ resp.status \in {401, 500}
          /\ Configured(env) => resp.status = 401 /\ HasBasicChallenge(resp.www)

\* a configured deployment has answered a cleanup without header with 401
C4_Witness ==
  /\ Configured(env)
  /\ resp.op = "cleanup" /\ resp.variant = "part_013" /\ resp.hdr = NoHeader
  /\ resp.status = 401 /\ HasBasicChallenge(resp.www) /\ ~resp.ran

\* C5: where ADMIN_USER or ADMIN_PASS is absent, every admin operation is
\* answered 500 and none is authorized, whatever header it carries.
C5_MissingSecretsIs500 ==
  (MissingAdminEnv(env) /\ resp.op \in AdminOps)
    => resp.status = 500 /\ ~resp.ran

\* C6: for every configured non-empty user and password, a gate authorizes
\* exactly the header "Basic " base64(user ":" password), and answers every
\* other header with 401.
C6_GateExact ==
  authCase.pc = "done" =>
    LET expected == authCase.header = ExpectedHeader(authCase.user, authCase.pass)
    IN  /\ authCase.result.authorized <=> expected
        /\ ~expected => authCase.result.status = 401

(***************************************************************************)
(* Properties of the Deletion Service                                      *)
(***************************************************************************)
\* C7: rows leave the table only through a single delete of that row or
\* through a cleanup whose request carries exactly the configured
\* credentials: an unauthenticated or wrongly authenticated DELETE removes
\* nothing, and no other operation removes rows.
C7_CleanupOnlyAuthorized ==
  [][~(DOMAIN photos \subseteq DOMAIN photos') =>
       \/ Answers("delete") /\ (DOMAIN photos) \ (DOMAIN photos') = {resp'.id}
       \/ Answers("cleanup") /\ GateShouldAuthorize(env, resp'.hdr)]_vars

\* C8: a cleanup that is carried out removes exactly the rows whose blobUrl
\* is null or "", leaves every other row as it was, makes no call to the
\* Blob Store, touches no request in flight, and reports as deletedCount
\* the number of rows removed.
C8_CleanupRemovesLegacyOnly ==
  [][(Answers("cleanup") /\ resp'.status = 200) =>
       /\ DOMAIN photos' =
            {id \in DOMAIN photos : photos[id].blobUrl \notin {NullUrl, EmptyUrl}}
       /\ \A id \in DOMAIN photos' : photos'[id] = photos[id]
       /\ resp'.calls = 0
       /\ req' = req
       /\ resp'.deletedCount =
            Cardinality((DOMAIN photos) \ (DOMAIN photos'))]_vars

\* a cleanup has removed a row and kept another
C8_Witness ==
  /\ resp.op = "cleanup" /\ resp.status = 200
  /\ resp.deletedCount >= 1
  /\ DOMAIN photos # {}

\* C9: once a single delete of X has succeeded, X is not in the table again,
\* every lookup of X is answered 404 and no list contains X, whatever is
\* uploaded, listed, looked up or deleted afterwards.
C9_DeleteIsTerminal ==
  /\ [](/\ deleted \cap DOMAIN photos = {}
        /\ (resp.op = "lookup" /\ resp.id \in deleted) => resp.status = 404
        /\ resp.op = "list" => \A i \in DOMAIN resp.items : resp.items[i] \notin deleted)
  /\ [][/\ deleted \subseteq deleted'
        /\ (Answers("delete") /\ resp'.status = 302) => resp'.id \in deleted']_vars

\* a photo was deleted, another row exists, a lookup of the deleted one got 404
C9_Witness ==
  /\ resp.op = "lookup" /\ resp.id \in deleted /\ resp.status = 404
  /\ DOMAIN photos # {}
  /\ nextId > resp.id

\* C10: a single delete whose removal of the stored object failed still
\* deletes the row and reports success.
C10_BlobFailureDoesNotBlock ==
  (resp.op = "delete" /\ resp.blobDelFailed)
    => resp.status = 302 /\ resp.id \notin DOMAIN photos

\* C11: a single delete that passes the gate and looks up an id that has no
\* row is answered 404 at once and changes nothing: the table, the deleted
\* ids and the requests in flight stay as they were and no call is made to
\* the Blob Store; a delete that finds the row at its lookup is not answered
\* 404, and every delete answered 404 has changed nothing.
C11_AbsentIdIs404 ==
  /\ [][(Answers("delete") /\ resp'.ran /\ req' = req) =>
          IF resp'.id \notin DOMAIN photos
          THEN /\ resp'.status = 404
               /\ resp'.calls = 0
               /\ photos' = photos /\ deleted' = deleted /\ nextId' = nextId
          ELSE resp'.status # 404]_vars
  /\ [][(Answers("delete") /\ resp'.status = 404) =>
          /\ resp'.id \notin DOMAIN photos
          /\ resp'.calls = 0
          /\ photos' = photos /\ req' = req]_vars

\* a delete of an id without a row was answered 404 while another row exists
C11_Witness ==
  /\ resp.op = "delete" /\ resp.status = 404 /\ resp.ran
  /\ resp.id \notin DOMAIN photos
  /\ resp.calls = 0
  /\ DOMAIN photos # {}

(***************************************************************************)
(* Properties of the upload's validation                                   *)
(***************************************************************************)
\* the body carries, in the field "file", a named part of an allowed type
WellFormed(body) ==
  body.field = "file" /\ body.name # "" /\ body.mime \in ALLOWED_MIME_TYPES

\* C12: an upload whose file is exactly MAX_FILE_SIZE bytes long is taken to
\* the store and, when the store accepts it, answered 201; an upload whose
\* file is one byte longer is answered 400 with the size error, without a
\* call to the store and without a new row.
C12_SizeBoundary ==
  (resp.op = "upload" /\ WellFormed(resp.body)) =>
    /\ resp.body.size = MAX_FILE_SIZE =>
         resp.calls = 1 /\ (resp.status = 201 \/ resp.status = 500)
    /\ resp.body.size = MAX_FILE_SIZE + 1 =>
         /\ resp.status = 400 /\ resp.error = "File too large"
         /\ resp.calls = 0 /\ resp.inserts = 0
         /\ photos = << >>

\* C13: an upload whose declared type, in lower case, is not in the
\* allow-list is answered 400 without a call to the store and without a new
\* row, and every row has a mimeType that, in lower case, is in the
\* allow-list.
C13_MimeAllowList ==
  /\ (resp.op = "upload" /\ ToLowerCase(resp.body.mime) \notin ALLOWED_MIME_TYPES) =>
       resp.status = 400 /\ resp.calls = 0 /\ resp.inserts = 0
  /\ \A id \in DOMAIN photos : ToLowerCase(photos[id].mimeType) \in ALLOWED_MIME_TYPES

\* C14: the store is called only for a body whose field "file" holds at
\* least one byte; a body without that field, or with an empty file of an
\* allowed type in it, is answered 400 and nothing is written.
C14_WriteOnlyNonEmpty ==
  /\ \A r \in Pending : r.op = "upload" => r.body.field = "file" /\ r.body.size > 0
  /\ resp.op = "upload" =>
       /\ resp.calls > 0 => resp.body.field = "file" /\ resp.body.size > 0
       /\ (resp.body.field # "file" \/ (WellFormed(resp.body) /\ resp.body.size = 0)) =>
            resp.status = 400 /\ resp.calls = 0 /\ resp.inserts = 0

(***************************************************************************)
(* Properties of the list endpoints                                        *)
(***************************************************************************)
\* C15: a row whose blobUrl is null or empty is either left out of a list
\* response or carried in it with hasUrl false, on every list endpoint that
\* answers JSON built from the blobUrl column.
C15_LegacyFiltering ==
  (resp.op = "list" /\ resp.status = 200 /\ ListPolicy(resp.variant).json) =>
    \A i \in DOMAIN resp.items :
      LegacyWhere(photos[resp.items[i].id]) => resp.items[i].hasUrl = "false"

\* C16: whatever the client sends as limit, the limit a list endpoint
\* computes for its query is an integer between 1 and the ceiling (at most
\* 200), and it is 50 when the parameter is absent or is not a number.
C16_LimitClamped ==
  resp.op = "list" =>
    /\ ~resp.limit.nan
    /\ resp.limit.v % 1000 = 0
    /\ resp.limit.v >= 1000 /\ resp.limit.v <= 200000
    /\ (resp.raw = Undefined \/ (parseInt(resp.raw).nan /\ Number(resp.raw).nan)) =>
         resp.limit = Num(50)

(***************************************************************************)
(* Properties of the awaited calls                                         *)
(***************************************************************************)
\* C17: a list request is always answered, also when the query never comes
\* back; the answer given when the timer fires is 200 with no items or 504,
\* always the same one for a given list endpoint.
C17_ListTimeout ==
  /\ \A e \in ListEndpoints :
       (Awaiting(<<"list", e>>) # {}) ~> (resp.op = "list" /\ resp.variant = e)
  /\ [](resp.op = "list" /\ "timedOut" \in DOMAIN resp /\ resp.timedOut =>
          /\ resp.status \in {200, 504} /\ resp.items = << >>
          /\ resp.status = ListPolicy(resp.variant).timeout)

\* C18: every request to every endpoint is eventually answered, also when
\* a Blob Store or Metadata Store call made for it never comes back.
C18_NoEndpointHangs ==
  \A ep \in CallEndpoints :
    (Awaiting(ep) # {}) ~> (resp.op = ep[1] /\ resp.variant = ep[2])

(***************************************************************************)
(* Properties of the Express download                                      *)
(***************************************************************************)
\* C19: the Express download opens the stored file only when its resolved
\* path lies in the uploads directory, and answers 403 whenever the stored
\* path resolves to a place outside it.
C19_PathConfined ==
  (resp.op = "download" /\ "storagePath" \in DOMAIN resp) =>
    LET inside == /\ Len(resp.path) >= Len(UploadsDir)
                  /\ SubSeq(resp.path, 1, Len(UploadsDir)) = UploadsDir
    IN  /\ resp.opened => inside
        /\ ~inside => resp.status = 403

(***************************************************************************)
(* Properties of sanitizeFilename                                          *)
(***************************************************************************)
\* C20: whatever the file name, the sanitized name holds no slash, no
\* backslash, no control character (0x00-0x1F, 0x7F) and no double quote,
\* and is at most 255 characters long.
C20_SanitizedName ==
  resp.op = "sanitize" =>
    /\ \A i \in DOMAIN resp.safe :
         resp.safe[i] \notin {47, 92, 34, 127} \cup (0..31)
    /\ Len(resp.safe) <= 255

\* a name longer than the limit that holds a separator, a quote and a
\* control character, cut to 255 characters with the replacements in it
C20_Witness ==
  /\ resp.op = "sanitize"
  /\ Len(resp.filename) > 255
  /\ \E i \in DOMAIN resp.filename : resp.filename[i] \in {47, 92}
  /\ \E i \in DOMAIN resp.filename : resp.filename[i] = 34
  /\ \E i \in DOMAIN resp.filename : resp.filename[i] \in {0, 31, 127}
  /\ Len(resp.safe) = 255
  /\ \E i \in DOMAIN resp.safe : resp.safe[i] = 95
  /\ \E i \in DOMAIN resp.safe : resp.safe[i] = 39

(***************************************************************************)
(* Properties of the error answers                                         *)
(***************************************************************************)
\* C21: the answer to a list request whose query failed is the same
\* whatever the message of the error the driver threw: any other message
\* would have been answered with the same status and body.
C21_ErrorDetailHidden ==
  (resp.op = "list" /\ "upstream" \in DOMAIN resp) =>
    \A m \in ErrorMessages : FailureAnswer(resp.variant, m) = resp.answer

(***************************************************************************)
(* Properties of rejected requests                                         *)
(***************************************************************************)
\* C22: a request that is answered with a validation error (400, 405) or
\* turned away by the Access Control Gate (401, or 500 before the handler's
\* own logic ran) has made no call to the Metadata Store and none to the
\* Blob Store.
C22_RejectedTouchesNothing ==
  (resp.status \in {400, 401, 405} \/ (resp.status = 500 /\ ~resp.ran)) =>
    /\ resp.calls = 0 /\ resp.inserts = 0
    /\ IF "dbCalls" \in DOMAIN resp THEN resp.dbCalls = 0 ELSE ~resp.ran

(***************************************************************************)
(* Properties of the cursor list                                           *)
(***************************************************************************)
\* C23: the cursor list fetches at most limit+1 rows, newest first, that
\* come after the cursor row, and all of them when there are fewer; it
\* returns the first limit of them; nextCursor is the id of the last row
\* returned when limit+1 rows were fetched and null otherwise.
C23_CursorPage ==
  (resp.op = "list" /\ "fetched" \in DOMAIN resp) =>
    LET f == resp.fetched
        known == resp.cursor \in DOMAIN photos
    IN  /\ Len(f) <= resp.limit + 1
        /\ \A i, j \in DOMAIN f :
             i < j => f[i] # f[j] /\ photos[f[i]].createdAt >= photos[f[j]].createdAt
        /\ known => \A i \in DOMAIN f :
             f[i] # resp.cursor /\ photos[f[i]].createdAt <= photos[resp.cursor].createdAt
        /\ Len(f) < resp.limit + 1 =>
             \A id \in DOMAIN photos :
               (resp.cursor = 0 \/ (known /\ photos[id].createdAt < photos[resp.cursor].createdAt))
                 => \E i \in DOMAIN f : f[i] = id
        /\ resp.items = Take(f, resp.limit)
        /\ resp.nextCursor = IF Len(f) = resp.limit + 1 THEN resp.items[Len(resp.items)] ELSE 0

\* a page asked with a cursor that fetched limit+1 rows and names a next one
C23_Witness ==
  /\ resp.op = "list" /\ "fetched" \in DOMAIN resp
  /\ resp.cursor \in DOMAIN photos
  /\ Len(resp.fetched) = resp.limit + 1 /\ Len(resp.items) = resp.limit
  /\ resp.nextCursor = resp.items[resp.limit]

\* C27: a client that starts without a cursor and follows nextCursor until
\* it is null, with no write in between, has been given every row exactly
\* once, newest first.
C27_WalkReturnsEachRowOnce ==
  (resp.op = "list" /\ "seen" \in DOMAIN resp /\ resp.fromStart /\ resp.nextCursor = 0) =>
    /\ \A id \in DOMAIN photos : Cardinality({i \in DOMAIN resp.seen : resp.seen[i] = id}) = 1
    /\ \A i, j \in DOMAIN resp.seen :
         i < j => photos[resp.seen[i]].createdAt >= photos[resp.seen[j]].createdAt

(***************************************************************************)
(* Properties of the client upload                                         *)
(***************************************************************************)
\* C24: one call of uploadCapturedPhoto leaves at most one row in the
\* Metadata Store, whatever happened to its attempts.
C24_AtMostOneRowPerCall ==
  /\ \A r \in Pending : r.op = "uploadCapturedPhoto" => r.rows <= 1
  /\ resp.op = "uploadCapturedPhoto" => resp.rows <= 1

(***************************************************************************)
(* Properties of concurrent deletes                                        *)
(***************************************************************************)
\* C25: of the single deletes that ran for an id whose row has been
\* removed, the one that removed it reports success and every other one
\* reports 404 Not Found, never a server error.
C25_ConcurrentDeleteIs404 ==
  (resp.op = "delete" /\ resp.ran /\ resp.id \in deleted) => resp.status \in {302, 404}

C28_HistoryIndexInRange ==
  editor.open =>
    /\ -1 <= editor.historyIndex
    /\ editor.historyIndex <= Len(editor.history) - 1

\* C29: an undo right after a single edit restores images, stickers, texts,
\* filter, bgColor and bgImage as they were before that edit, and after a
\* single edit (the first of a session included) undo is available.
C29_UndoRestoresPreEdit ==
  editor.open =>
    /\ editor.lastOp = "edit" => editor.historyIndex > 0
    /\ editor.lastOp = "undo after edit" => editor.doc = editor.beforeEdit

\* C30: a redo right after an undo restores the content as it was before
\* that undo.
C30_RedoRestoresPreUndo ==
  (editor.open /\ editor.lastOp = "redo after undo") => editor.doc = editor.beforeUndo

====
